---- MODULE Spec2Model ----
(***************************************************************************)
(* Battery report analysis: the log parser (BatteryLogParser) and the      *)
(* session segmenter (SessionDetector).                                    *)
(*                                                                         *)
(* Representation.                                                         *)
(*  - An optional value (JS undefined / null) is the empty tuple None, a   *)
(*    present value v is Some(v) = <<v>>.                                  *)
(*  - A date string "YYYY-MM-DD" is [valid, day]: day is the number of the *)
(*    calendar day it names; valid is FALSE for a string that names no     *)
(*    day ("2025-13-45", "NaN-NaN-NaN").                                   *)
(*  - A time string "H:MM:SS" is [valid, sec]: seconds since midnight;     *)
(*    valid is FALSE for a string such as "25:00:00".                      *)
(*  - A timestamp string `${date} ${time}` is [date, time].                *)
(*  - Date.getTime() is counted in seconds, so the source's divisor        *)
(*    1000 * 60 (ms per minute) is SecPerMin here.                         *)
(*  - A state label is a tuple of one-character strings.                   *)
(***************************************************************************)
EXTENDS Integers, Sequences, FiniteSets, TLC

\* ---- bounds of the model ------------------------------------------------
MaxLines == 3
MaxRows == 2
MaxEvents == 8
MaxRich == 3
MaxChecked == 5
MaxCross == 10
MaxWords == 2
MaxGaps == 2
MaxUpload == 5
MaxDash == 8

\* ---- program constants --------------------------------------------------
DEFAULT_FULL_CHARGE_THRESHOLD == 98
InitialThreshold == 98
SliderMin == 90
SliderMax == 100
DedupWindow == 5
FewEvents == 5
MinLineLength == 10
MinParts == 3
MinCells == 3
MaxPercent == 100
SecPerMin == 60
SecPerDay == 86400

\* ---- optional values ----------------------------------------------------
None == <<>>
Some(v) == <<v>>
IsSome(o) == o # <<>>
Val(o) == o[1]

Max(a, b) == IF a >= b THEN a ELSE b

\* Math.round(num / den) for den > 0: the nearest integer, halves upwards.
MathRound(num, den) == (2 * num + den) \div (2 * den)

\* ---- strings ------------------------------------------------------------
Lower(c) ==
  CASE c = "A" -> "a" [] c = "B" -> "b" [] c = "C" -> "c" [] c = "D" -> "d"
    [] c = "E" -> "e" [] c = "F" -> "f" [] c = "G" -> "g" [] c = "H" -> "h"
    [] c = "I" -> "i" [] c = "J" -> "j" [] c = "K" -> "k" [] c = "L" -> "l"
    [] c = "M" -> "m" [] c = "N" -> "n" [] c = "O" -> "o" [] c = "P" -> "p"
    [] c = "Q" -> "q" [] c = "R" -> "r" [] c = "S" -> "s" [] c = "T" -> "t"
    [] c = "U" -> "u" [] c = "V" -> "v" [] c = "W" -> "w" [] c = "X" -> "x"
    [] c = "Y" -> "y" [] c = "Z" -> "z" [] OTHER -> c

toLowerCase(s) == [i \in 1..Len(s) |-> Lower(s[i])]

includes(s, sub) ==
  \E i \in 0..(Len(s) - Len(sub)) : SubSeq(s, i + 1, i + Len(sub)) = sub

kw_active == <<"a","c","t","i","v","e">>
kw_standby == <<"s","t","a","n","d","b","y">>
kw_suspended == <<"s","u","s","p","e","n","d","e","d">>
kw_sleep == <<"s","l","e","e","p">>
kw_charging == <<"c","h","a","r","g","i","n","g">>
kw_plugged == <<"p","l","u","g","g","e","d">>
kw_ac == <<"a","c">>
kw_connected == <<"c","o","n","n","e","c","t","e","d">>
kw_battery == <<"b","a","t","t","e","r","y">>
kw_report_generated ==
  <<"r","e","p","o","r","t"," ","g","e","n","e","r","a","t","e","d">>

\* Labels that occur in the modelled inputs.
L_Active == <<"A","c","t","i","v","e">>
L_ConnectedStandby ==
  <<"C","o","n","n","e","c","t","e","d"," ","s","t","a","n","d","b","y">>
L_Charging == <<"C","h","a","r","g","i","n","g">>
L_ScreenOff == <<"S","c","r","e","e","n"," ","o","f","f">>
L_Unknown == <<"U","n","k","n","o","w","n">>
L_Battery == <<"B","a","t","t","e","r","y">>

normalizeState_chargingFirst(rawState) ==
  LET state == toLowerCase(rawState)
  IN  IF includes(state, kw_charging) \/ includes(state, kw_plugged)
         \/ includes(state, kw_ac) THEN "Charging"
      ELSE IF includes(state, kw_standby) \/ includes(state, kw_suspended)
              \/ includes(state, kw_sleep) THEN "Idle"
      ELSE IF includes(state, kw_active) THEN "Active"
      ELSE "Unknown"

normalizeState(rawState) ==
  LET state == toLowerCase(rawState)
  IN  IF includes(state, kw_active) THEN "Active"
      ELSE IF includes(state, kw_standby) \/ includes(state, kw_suspended)
              \/ includes(state, kw_sleep) THEN "Idle"
      ELSE IF includes(state, kw_charging) \/ includes(state, kw_plugged)
              \/ includes(state, kw_ac) THEN "Charging"
      ELSE "Unknown"

\* ---- dates and instants -------------------------------------------------
DateStr(day) == [valid |-> TRUE, day |-> day]
InvalidDateStr == [valid |-> FALSE, day |-> 0]
TimeStr(sec) == [valid |-> TRUE, sec |-> sec]
InvalidTimeStr == [valid |-> FALSE, sec |-> 0]
Timestamp(date, time) == [date |-> date, time |-> time]

\* new Date(`${date} ${time}`).getTime(): a date-and-time string without a
\* zone is read as local time; tz is the local offset east of UTC, in
\* seconds.  None stands for NaN (Invalid Date).
getTime(ts, tz) ==
  IF ts.date.valid /\ ts.time.valid
  THEN Some(ts.date.day * SecPerDay + ts.time.sec - tz)
  ELSE None

\* new Date(firstFullDate); setDate(getDate() - 1); getFullYear() / getMonth()
\* / getDate(): a date-only string is read as UTC midnight, the getters and
\* setDate work on the local calendar.
previousDayOf(firstFullDate, tz) ==
  IF firstFullDate.valid
  THEN DateStr(((firstFullDate.day * SecPerDay + tz) \div SecPerDay) - 1)
  ELSE InvalidDateStr

\* ---- input lines ---------------------------------------------------------
\* A line of the text, by what the parser's tests see in it:
\*   length           line.trim().length
\*   markup           line.includes("<")
\*   reportGenerated  line.includes("Report generated")
\*   nparts           number of parts of line.split(/\t+|\s{2,}/)
\*   lineTs           line.match(TIMESTAMP_REGEX): None, or [date, time] with
\*                    date None when group 1 did not take part
\*   ts               parts[0].match(TIMESTAMP_REGEX), likewise
\*   rawState         parts[1]
\*   percent          line.match(PERCENT_REGEX), parsed: None or Some(n)
\*   mWh              line.match(MWH_REGEX), commas stripped, parsed
TsMatch(date, time) == Some([date |-> date, time |-> time])

DataLine(date, time, rawState, percent, mWh) ==
  [length |-> 24, markup |-> FALSE, reportGenerated |-> FALSE, nparts |-> 3,
   lineTs |-> TsMatch(date, time), ts |-> TsMatch(date, time),
   rawState |-> rawState, percent |-> percent, mWh |-> mWh]

BlankLine ==
  [length |-> 0, markup |-> FALSE, reportGenerated |-> FALSE, nparts |-> 0,
   lineTs |-> None, ts |-> None, rawState |-> <<>>, percent |-> None,
   mWh |-> None]

\* "Battery report   Report generated   2025-..." : a header line.
HeaderLine ==
  [length |-> 40, markup |-> FALSE, reportGenerated |-> TRUE, nparts |-> 3,
   lineTs |-> None, ts |-> None, rawState |-> L_Unknown, percent |-> None,
   mWh |-> None]

\* ---- BatteryLogParser.parseLine ------------------------------------------
\* The date a time-only line is given, and the updatedDate it reports.
resolveDate(dateStr, lastSeenDate, previousDay, today) ==
  IF IsSome(dateStr) THEN [date |-> Val(dateStr), updatedDate |-> dateStr]
  ELSE IF IsSome(lastSeenDate)
       THEN [date |-> Val(lastSeenDate), updatedDate |-> None]
  ELSE IF IsSome(previousDay)
       THEN [date |-> Val(previousDay), updatedDate |-> None]
  ELSE [date |-> DateStr(today), updatedDate |-> Some(DateStr(today))]

BatteryEvent(timestamp, state, percent, mWh, rawState) ==
  [timestamp |-> timestamp, minutesOffset |-> 0, state |-> state,
   percent |-> percent, mWh |-> mWh, rawState |-> rawState]

\* None is the null return; otherwise Some([event, updatedDate]).
parseLine(line, lastSeenDate, previousDay, today) ==
  IF line.markup \/ line.reportGenerated \/ line.length < MinLineLength
  THEN None
  ELSE IF line.nparts < MinParts THEN None
  ELSE IF ~IsSome(line.ts) THEN None
  ELSE LET m == Val(line.ts)
           r == resolveDate(m.date, lastSeenDate, previousDay, today)
           rawState == line.rawState
           state == normalizeState(rawState)
       IN  IF ~IsSome(line.percent) THEN None
           ELSE Some([event |-> BatteryEvent(Timestamp(r.date, m.time), state,
                                             Val(line.percent), line.mWh,
                                             rawState),
                      updatedDate |-> r.updatedDate])

\* ---- BatteryLogParser.parseText ------------------------------------------
\* An entry of errors: `${unit} ${n}: Invalid timestamp: ${value}`.
InvalidTimestampError(unit, n, value) ==
  [unit |-> unit, n |-> n, message |-> "Invalid timestamp", value |-> value]

RECURSIVE firstFullDateFrom(_, _)
firstFullDateFrom(dates, i) ==
  IF i > Len(dates) THEN None
  ELSE IF IsSome(dates[i]) /\ IsSome(Val(dates[i]).date)
       THEN Val(dates[i]).date
  ELSE firstFullDateFrom(dates, i + 1)

\* What one accepted parseLine/parseTableRow result does to the loop's
\* variables (acc = [events, errors, startDate, lastSeenDate]).
acceptResult_silentSkip(acc, result, unit, n, tz) ==
  LET event == Val(result).event
      updatedDate == Val(result).updatedDate
      seen == IF IsSome(updatedDate) THEN updatedDate ELSE acc.lastSeenDate
      testDate == getTime(event.timestamp, tz)
  IN  IF ~IsSome(testDate)
      THEN [acc EXCEPT !.lastSeenDate = seen]
      ELSE [events |-> Append(acc.events, event),
            errors |-> acc.errors,
            startDate |-> IF ~IsSome(acc.startDate) THEN testDate
                          ELSE acc.startDate,
            lastSeenDate |-> seen]

sameReading(a, b) ==
  /\ a.timestamp = b.timestamp
  /\ a.rawState = b.rawState
  /\ a.percent = b.percent
  /\ a.mWh = b.mWh

acceptResult_dedup(acc, result, unit, n, tz) ==
  LET event == Val(result).event
      updatedDate == Val(result).updatedDate
      seen == IF IsSome(updatedDate) THEN updatedDate ELSE acc.lastSeenDate
      testDate == getTime(event.timestamp, tz)
  IN  IF ~IsSome(testDate)
      THEN [acc EXCEPT !.errors =
                         Append(@, InvalidTimestampError(unit, n, event.timestamp)),
                       !.lastSeenDate = seen]
      ELSE IF \E k \in 1..Len(acc.events) : sameReading(acc.events[k], event)
      THEN [acc EXCEPT !.lastSeenDate = seen]
      ELSE [events |-> Append(acc.events, event),
            errors |-> acc.errors,
            startDate |-> IF ~IsSome(acc.startDate) THEN testDate
                          ELSE acc.startDate,
            lastSeenDate |-> seen]

acceptResult(acc, result, unit, n, tz) ==
  LET event == Val(result).event
      updatedDate == Val(result).updatedDate
      seen == IF IsSome(updatedDate) THEN updatedDate ELSE acc.lastSeenDate
      testDate == getTime(event.timestamp, tz)
  IN  IF ~IsSome(testDate)
      THEN [acc EXCEPT !.errors =
                         Append(@, InvalidTimestampError(unit, n, event.timestamp)),
                       !.lastSeenDate = seen]
      ELSE [events |-> Append(acc.events, event),
            errors |-> acc.errors,
            startDate |-> IF ~IsSome(acc.startDate) THEN testDate
                          ELSE acc.startDate,
            lastSeenDate |-> seen]

RECURSIVE parseLines(_, _, _, _, _, _)
parseLines(lines, i, acc, previousDay, today, tz) ==
  IF i > Len(lines) THEN acc
  ELSE LET result == parseLine(lines[i], acc.lastSeenDate, previousDay, today)
           next == IF IsSome(result)
                   THEN acceptResult(acc, result, "Line", i, tz)
                   ELSE acc
       IN  parseLines(lines, i + 1, next, previousDay, today, tz)

\* events.forEach(event => event.minutesOffset = Math.round(...)): every
\* offset is taken from events[0] of the array as it is at that moment.
computeOffsets(events, tz) ==
  IF Len(events) > 0
  THEN LET firstTimestamp == Val(getTime(events[1].timestamp, tz))
       IN  [k \in 1..Len(events) |->
              [events[k] EXCEPT !.minutesOffset =
                 MathRound(Val(getTime(events[k].timestamp, tz)) - firstTimestamp,
                           SecPerMin)]]
  ELSE events

RECURSIVE insertSorted_descending(_, _, _)
insertSorted_descending(sorted, e, tz) ==
  IF sorted = <<>> THEN <<e>>
  ELSE LET last == sorted[Len(sorted)]
       IN  IF Val(getTime(e.timestamp, tz)) - Val(getTime(last.timestamp, tz)) > 0
           THEN Append(insertSorted_descending(SubSeq(sorted, 1, Len(sorted) - 1),
                                               e, tz), last)
           ELSE Append(sorted, e)

\* Array.prototype.sort with the comparator a.getTime() - b.getTime(): a
\* stable sort, modelled as insertion from the left.
RECURSIVE insertSorted(_, _, _)
insertSorted(sorted, e, tz) ==
  IF sorted = <<>> THEN <<e>>
  ELSE LET last == sorted[Len(sorted)]
       IN  IF Val(getTime(last.timestamp, tz)) - Val(getTime(e.timestamp, tz)) > 0
           THEN Append(insertSorted(SubSeq(sorted, 1, Len(sorted) - 1), e, tz), last)
           ELSE Append(sorted, e)

RECURSIVE sortFrom(_, _, _, _)
sortFrom(events, k, sorted, tz) ==
  IF k > Len(events) THEN sorted
  ELSE sortFrom(events, k + 1, insertSorted(sorted, events[k], tz), tz)

sortByTimestamp_inputOrder(events, tz) == events

sortByTimestamp(events, tz) == sortFrom(events, 1, <<>>, tz)

metadataOf(events) ==
  [totalEvents |-> Len(events),
   hasEnergyData |-> \E k \in 1..Len(events) : IsSome(events[k].mWh),
   timeRange |-> [start |-> IF Len(events) > 0 THEN Some(events[1].timestamp)
                            ELSE None,
                  end |-> IF Len(events) > 0
                          THEN Some(events[Len(events)].timestamp) ELSE None]]

finish_sortFirst(acc, tz) ==
  LET events == computeOffsets(sortByTimestamp(acc.events, tz), tz)
  IN  [events |-> events, startDate |-> acc.startDate, errors |-> acc.errors,
       metadata |-> metadataOf(events)]

\* The tail shared by parseText and parseHTMLReport: offsets, then the sort,
\* then the returned object.
finish(acc, tz) ==
  LET events == sortByTimestamp(computeOffsets(acc.events, tz), tz)
  IN  [events |-> events, startDate |-> acc.startDate, errors |-> acc.errors,
       metadata |-> metadataOf(events)]

EmptyAcc ==
  [events |-> <<>>, errors |-> <<>>, startDate |-> None, lastSeenDate |-> None]

nonEmpty(line) == line.length > 0

parseText(text, today, tz) ==
  LET lines == SelectSeq(text, nonEmpty)
      firstFullDate ==
        firstFullDateFrom([k \in 1..Len(lines) |-> lines[k].lineTs], 1)
      previousDay == IF IsSome(firstFullDate)
                     THEN Some(previousDayOf(Val(firstFullDate), tz))
                     ELSE None
  IN  finish(parseLines(lines, 1, EmptyAcc, previousDay, today, tz), tz)

\* ---- BatteryLogParser.parseHTMLReport -------------------------------------
\* An HTML document, by what the extraction sees: the <tr> blocks in order
\* (rows) and the text lines lying outside any table (outside).  A <tr> block
\* is [hasTh, length, cells]: rowContent contains "<th", its trimmed length,
\* and its non-empty cell texts.  A cell text is
\*   text     its letters, for the keyword tests
\*   ts       TIMESTAMP_REGEX on the cell: None or [date, time]
\*   percent  PERCENT_REGEX on the cell, parsed
\*   mWh      MWH_REGEX on the cell, commas stripped, parsed
TsCell(date, time) ==
  [text |-> <<>>, ts |-> TsMatch(date, time), percent |-> None, mWh |-> None]
TextCell(text) == [text |-> text, ts |-> None, percent |-> None, mWh |-> None]
PercentCell(n) == [text |-> <<"%">>, ts |-> None, percent |-> Some(n), mWh |-> None]
MWhCell(n) ==
  [text |-> <<"m","W","h">>, ts |-> None, percent |-> None, mWh |-> Some(n)]
TableRow(cells) == [hasTh |-> FALSE, length |-> 60, cells |-> cells]
HeaderRow(cells) == [hasTh |-> TRUE, length |-> 60, cells |-> cells]

isStateCell(cell) ==
  LET c == toLowerCase(cell.text)
  IN  includes(c, kw_active) \/ includes(c, kw_standby)
      \/ includes(c, kw_suspended) \/ includes(c, kw_charging)
      \/ includes(c, kw_connected) \/ includes(c, kw_report_generated)

isSourceCell(cell) ==
  LET c == toLowerCase(cell.text)
  IN  includes(c, kw_battery) \/ includes(c, kw_ac)

\* The last cell from index 1 on (0-based) that passes the test, or None;
\* passes[i] tells whether the i-th cell passes.
lastCell(cells, passes) ==
  LET found == {i \in 2..Len(cells) : passes[i]}
  IN  IF found = {} THEN None
      ELSE Some(cells[CHOOSE i \in found : \A j \in found : j <= i])

hasPercent(cell) == IsSome(cell.percent)
hasMWh(cell) == IsSome(cell.mWh)

mapCells(cells) ==
  [timestamp |-> IF IsSome(cells[1].ts) THEN Some(cells[1]) ELSE None,
   state |-> lastCell(cells, [i \in 1..Len(cells) |-> isStateCell(cells[i])]),
   source |-> lastCell(cells, [i \in 1..Len(cells) |-> isSourceCell(cells[i])]),
   percent |-> lastCell(cells, [i \in 1..Len(cells) |-> hasPercent(cells[i])]),
   mWh |-> lastCell(cells, [i \in 1..Len(cells) |-> hasMWh(cells[i])])]

RECURSIVE extractRows(_, _, _)
extractRows(rows, i, tableData) ==
  IF i > Len(rows) THEN tableData
  ELSE LET tr == rows[i]
           row == mapCells(tr.cells)
       IN  IF tr.hasTh \/ tr.length < MinLineLength
           THEN extractRows(rows, i + 1, tableData)
           ELSE IF Len(tr.cells) < MinCells
           THEN extractRows(rows, i + 1, tableData)
           ELSE IF IsSome(row.timestamp) /\ IsSome(row.percent)
           THEN extractRows(rows, i + 1, Append(tableData, row))
           ELSE extractRows(rows, i + 1, tableData)

extractTableDataFromHTML(html) == extractRows(html.rows, 1, <<>>)

parseTableRow(row, lastSeenDate, previousDay, today) ==
  IF ~IsSome(row.timestamp) \/ ~IsSome(row.percent) THEN None
  ELSE IF ~IsSome(Val(row.timestamp).ts) THEN None
  ELSE LET m == Val(Val(row.timestamp).ts)
           r == resolveDate(m.date, lastSeenDate, previousDay, today)
           rawState == IF IsSome(row.state) /\ Val(row.state).text # <<>>
                       THEN Val(row.state).text ELSE L_Unknown
           state == normalizeState(rawState)
           percentMatch == Val(row.percent).percent
           mWh == IF IsSome(row.mWh) THEN Val(row.mWh).mWh ELSE None
       IN  IF ~IsSome(percentMatch) THEN None
           ELSE Some([event |-> BatteryEvent(Timestamp(r.date, m.time), state,
                                             Val(percentMatch), mWh, rawState),
                      updatedDate |-> r.updatedDate])

RECURSIVE parseRows(_, _, _, _, _, _)
parseRows(tableData, i, acc, previousDay, today, tz) ==
  IF i > Len(tableData) THEN acc
  ELSE LET result ==
             parseTableRow(tableData[i], acc.lastSeenDate, previousDay, today)
           next == IF IsSome(result)
                   THEN acceptResult(acc, result, "Row", i, tz)
                   ELSE acc
       IN  parseRows(tableData, i + 1, next, previousDay, today, tz)

\* htmlContent.replace(HTML_TAG_REGEX, ' ').replace(/\s+/g, ' '): every run of
\* white space, line breaks and tabs included, becomes one space, so the
\* clean text is a single line that split(/\t+|\s{2,}/) leaves in one part.
cleanTextOf(html) ==
  IF Len(html.rows) = 0 /\ Len(html.outside) = 0 THEN <<BlankLine>>
  ELSE <<[length |-> 60, markup |-> FALSE,
          reportGenerated |-> \E k \in 1..Len(html.outside) :
                                 html.outside[k].reportGenerated,
          nparts |-> 1,
          lineTs |-> IF Len(html.outside) > 0 THEN html.outside[1].lineTs
                     ELSE None,
          ts |-> IF Len(html.outside) > 0 THEN html.outside[1].lineTs ELSE None,
          rawState |-> <<>>,
          percent |-> IF \E k \in 1..Len(html.outside) :
                           IsSome(html.outside[k].percent)
                      THEN html.outside[
                             CHOOSE k \in 1..Len(html.outside) :
                               /\ IsSome(html.outside[k].percent)
                               /\ \A j \in 1..(k - 1) :
                                    ~IsSome(html.outside[j].percent)].percent
                      ELSE None,
          mWh |-> None]>>

parseHTMLReport(html, today, tz) ==
  LET tableData == extractTableDataFromHTML(html)
      firstFullDate ==
        firstFullDateFrom(
          [k \in 1..Len(tableData) |-> Val(tableData[k].timestamp).ts], 1)
      previousDay == IF IsSome(firstFullDate)
                     THEN Some(previousDayOf(Val(firstFullDate), tz))
                     ELSE None
  IN  IF Len(tableData) = 0 THEN parseText(cleanTextOf(html), today, tz)
      ELSE finish(parseRows(tableData, 1, EmptyAcc, previousDay, today, tz), tz)

\* ---- BatteryLogParser.validateData ---------------------------------------
\* Math.min() of no values is +Infinity and Math.max() is -Infinity, so an
\* empty events array passes the percent test.
validateData_strictOrder(data, tz) ==
  LET n == Len(data.events)
      t(k) == Val(getTime(data.events[k].timestamp, tz))
      one == IF n = 0 THEN <<"No valid battery events found">> ELSE <<>>
      two == IF n < FewEvents
             THEN <<"Very few events found - results may not be meaningful">>
             ELSE <<>>
      three == IF \E k \in 1..n : data.events[k].percent < 0
                    \/ data.events[k].percent > MaxPercent
               THEN <<"Invalid battery percentage values detected">> ELSE <<>>
      four == IF ~(\A k \in 2..n : t(k) > t(k - 1))
              THEN <<"Timestamps are not in chronological order">> ELSE <<>>
      issues == one \o two \o three \o four
  IN  [isValid |-> Len(issues) = 0, issues |-> issues]

validateData(data, tz) ==
  LET n == Len(data.events)
      t(k) == Val(getTime(data.events[k].timestamp, tz))
      one == IF n = 0 THEN <<"No valid battery events found">> ELSE <<>>
      two == IF n < FewEvents
             THEN <<"Very few events found - results may not be meaningful">>
             ELSE <<>>
      three == IF \E k \in 1..n : data.events[k].percent < 0
                    \/ data.events[k].percent > MaxPercent
               THEN <<"Invalid battery percentage values detected">> ELSE <<>>
      four == IF ~(\A k \in 2..n : t(k) >= t(k - 1))
              THEN <<"Timestamps are not in chronological order">> ELSE <<>>
      issues == one \o two \o three \o four
  IN  [isValid |-> Len(issues) = 0, issues |-> issues]

\* ---- numbers ------------------------------------------------------------
\* A JS number that need not be whole (minutes, rates) is the exact fraction
\* [num, den] in lowest terms, den > 0.
RECURSIVE GCD(_, _)
GCD(a, b) == IF b = 0 THEN a ELSE GCD(b, a % b)

Abs(a) == IF a < 0 THEN -a ELSE a

Rat(n, d) ==
  LET g == GCD(Abs(n), d)
  IN  [num |-> n \div g, den |-> d \div g]

Zero == Rat(0, 1)
RatAdd(a, b) == Rat(a.num * b.den + b.num * a.den, a.den * b.den)
RatDivInt(a, k) == Rat(a.num, a.den * k)
RatPositive(a) == a.num > 0
RatGeq0(a) == a.num >= 0
RatLeq(a, b) == a.num * b.den <= b.num * a.den
\* Number(x.toFixed(2))
toFixed2(a) == Rat(MathRound(100 * a.num, a.den), 100)

\* ---- SessionDetector ----------------------------------------------------
At(events, i) == events[i + 1]

\* Array.prototype.slice(from, to): the elements at the 0-based indices
\* from .. to - 1, as a new array; the receiver is not changed.
slice(events, from, to) == SubSeq(events, from + 1, to)

isFullCharge(events, i, threshold) ==
  LET event == At(events, i)
  IN  \/ event.percent >= threshold
      \/ (event.state = "Charging" /\ event.percent >= threshold - 2)
      \/ (i > 0 /\ At(events, i - 1).percent < threshold
          /\ event.percent >= threshold)

RECURSIVE findFullChargeFrom_windowOffByOne(_, _, _, _)
findFullChargeFrom_windowOffByOne(events, i, threshold, fullChargeIndices) ==
  IF i >= Len(events) THEN fullChargeIndices
  ELSE IF isFullCharge(events, i, threshold)
          /\ (fullChargeIndices = <<>>
              \/ i - fullChargeIndices[Len(fullChargeIndices)] >= DedupWindow)
       THEN findFullChargeFrom_windowOffByOne(events, i + 1, threshold,
                               Append(fullChargeIndices, i))
  ELSE findFullChargeFrom_windowOffByOne(events, i + 1, threshold, fullChargeIndices)

RECURSIVE findFullChargeFrom_oncePerRun(_, _, _, _)
findFullChargeFrom_oncePerRun(events, i, threshold, fullChargeIndices) ==
  IF i >= Len(events) THEN fullChargeIndices
  ELSE IF isFullCharge(events, i, threshold)
          /\ (i = 0 \/ ~isFullCharge(events, i - 1, threshold))
       THEN findFullChargeFrom_oncePerRun(events, i + 1, threshold,
                               Append(fullChargeIndices, i))
  ELSE findFullChargeFrom_oncePerRun(events, i + 1, threshold, fullChargeIndices)

RECURSIVE findFullChargeFrom(_, _, _, _)
findFullChargeFrom(events, i, threshold, fullChargeIndices) ==
  IF i >= Len(events) THEN fullChargeIndices
  ELSE IF isFullCharge(events, i, threshold)
          /\ (fullChargeIndices = <<>>
              \/ i - fullChargeIndices[Len(fullChargeIndices)] > DedupWindow)
       THEN findFullChargeFrom(events, i + 1, threshold,
                               Append(fullChargeIndices, i))
  ELSE findFullChargeFrom(events, i + 1, threshold, fullChargeIndices)

findFullChargeEvents(events, threshold) ==
  findFullChargeFrom(events, 0, threshold, <<>>)

sessionBounds_noAdjust(events, fullChargeEvents, i) ==
  LET sessionStart == fullChargeEvents[i + 1]
      sessionEnd == IF i < Len(fullChargeEvents) - 1
                    THEN fullChargeEvents[i + 2] ELSE Len(events) - 1
  IN  [dischargeStart |-> sessionStart, sessionEnd |-> sessionEnd]

\* The bounds [dischargeStart, sessionEnd] (0-based, both included) of the
\* candidate carved from boundary number i (0-based) of fullChargeEvents.
sessionBounds(events, fullChargeEvents, i) ==
  LET sessionStart == fullChargeEvents[i + 1]
      sessionEnd == IF i < Len(fullChargeEvents) - 1
                    THEN fullChargeEvents[i + 2] ELSE Len(events) - 1
      notCharging == {j \in sessionStart..sessionEnd :
                        j < Len(events) /\ At(events, j).state # "Charging"}
      dischargeStart ==
        IF notCharging = {} THEN sessionStart
        ELSE CHOOSE j \in notCharging : \A k \in notCharging : j <= k
  IN  [dischargeStart |-> dischargeStart, sessionEnd |-> sessionEnd]

RECURSIVE createSessionsFrom_keepSingle(_, _, _, _)
createSessionsFrom_keepSingle(events, fullChargeEvents, i, sessions) ==
  IF i >= Len(fullChargeEvents) THEN sessions
  ELSE LET b == sessionBounds(events, fullChargeEvents, i)
           sessionEvents == slice(events, b.dischargeStart, b.sessionEnd + 1)
       IN  createSessionsFrom_keepSingle(events, fullChargeEvents, i + 1,
                              IF Len(sessionEvents) > 0 THEN Append(sessions, b)
                              ELSE sessions)

\* createSessions, as the index ranges of the sessions it returns.
RECURSIVE createSessionsFrom(_, _, _, _)
createSessionsFrom(events, fullChargeEvents, i, sessions) ==
  IF i >= Len(fullChargeEvents) THEN sessions
  ELSE LET b == sessionBounds(events, fullChargeEvents, i)
           sessionEvents == slice(events, b.dischargeStart, b.sessionEnd + 1)
       IN  createSessionsFrom(events, fullChargeEvents, i + 1,
                              IF Len(sessionEvents) > 1 THEN Append(sessions, b)
                              ELSE sessions)

sessionRanges_dropSingle(events, fullChargeEvents) ==
  IF Len(fullChargeEvents) = 0
  THEN IF Len(events) > 1
       THEN <<[dischargeStart |-> 0, sessionEnd |-> Len(events) - 1]>>
       ELSE <<>>
  ELSE createSessionsFrom(events, fullChargeEvents, 0, <<>>)

sessionRanges_leadingSession(events, fullChargeEvents) ==
  IF Len(fullChargeEvents) = 0
  THEN <<[dischargeStart |-> 0, sessionEnd |-> Len(events) - 1]>>
  ELSE (IF fullChargeEvents[1] > 0
        THEN <<[dischargeStart |-> 0, sessionEnd |-> fullChargeEvents[1]]>>
        ELSE <<>>)
       \o createSessionsFrom(events, fullChargeEvents, 0, <<>>)

sessionRanges(events, fullChargeEvents) ==
  IF Len(fullChargeEvents) = 0
  THEN <<[dischargeStart |-> 0, sessionEnd |-> Len(events) - 1]>>
  ELSE createSessionsFrom(events, fullChargeEvents, 0, <<>>)

createSessions(events, fullChargeEvents) ==
  LET ranges == sessionRanges(events, fullChargeEvents)
  IN  [k \in 1..Len(ranges) |->
         slice(events, ranges[k].dischargeStart, ranges[k].sessionEnd + 1)]

createEmptySession(sessionId) ==
  [sessionId |-> sessionId, startTime |-> None, endTime |-> None,
   startPct |-> 0, endPct |-> 0, usedPct |-> 0,
   startmWh |-> None, endmWh |-> None, usedmWh |-> None,
   durationMin |-> Zero, activeMinutes |-> Zero, idleMinutes |-> Zero,
   chargingMinutes |-> Zero, activeDrainPct |-> 0, idleDrainPct |-> 0,
   activeRate_pct_per_hr |-> Zero, idleRate_pct_per_hr |-> Zero,
   activeRate_mWh_per_hr |-> None, idleRate_mWh_per_hr |-> None,
   events |-> <<>>, isComplete |-> FALSE]

\* JS truthiness of an optional number: present and not 0.
truthy(o) == IsSome(o) /\ Val(o) # 0

\* One turn of analyzeSession's loop over the pairs (currentEvent, nextEvent).
\* The running sums of deltaMinutes are kept in seconds and divided by
\* SecPerMin once, after the loop: the fraction is the same.
ZeroTotals ==
  [activeSec |-> 0, idleSec |-> 0, chargingSec |-> 0, activeDrainPct |-> 0,
   idleDrainPct |-> 0, activeDrainmWh |-> 0, idleDrainmWh |-> 0]

pairStep_noFloor(acc, currentEvent, nextEvent, tz) ==
  LET deltaSec == Val(getTime(nextEvent.timestamp, tz))
                  - Val(getTime(currentEvent.timestamp, tz))
      drainPct == currentEvent.percent - nextEvent.percent
      drainmWh == IF truthy(currentEvent.mWh) /\ truthy(nextEvent.mWh)
                  THEN Val(currentEvent.mWh) - Val(nextEvent.mWh)
                  ELSE 0
  IN  CASE currentEvent.state = "Active" ->
             [acc EXCEPT !.activeSec = @ + deltaSec,
                         !.activeDrainPct = @ + drainPct,
                         !.activeDrainmWh = @ + drainmWh]
        [] currentEvent.state = "Idle" ->
             [acc EXCEPT !.idleSec = @ + deltaSec,
                         !.idleDrainPct = @ + drainPct,
                         !.idleDrainmWh = @ + drainmWh]
        [] currentEvent.state = "Charging" ->
             [acc EXCEPT !.chargingSec = @ + deltaSec]
        [] OTHER -> acc

pairStep_byNextState(acc, currentEvent, nextEvent, tz) ==
  LET deltaSec == Max(0, Val(getTime(nextEvent.timestamp, tz))
                         - Val(getTime(currentEvent.timestamp, tz)))
      drainPct == Max(0, currentEvent.percent - nextEvent.percent)
      drainmWh == IF truthy(currentEvent.mWh) /\ truthy(nextEvent.mWh)
                  THEN Max(0, Val(currentEvent.mWh) - Val(nextEvent.mWh))
                  ELSE 0
  IN  CASE nextEvent.state = "Active" ->
             [acc EXCEPT !.activeSec = @ + deltaSec,
                         !.activeDrainPct = @ + drainPct,
                         !.activeDrainmWh = @ + drainmWh]
        [] nextEvent.state = "Idle" ->
             [acc EXCEPT !.idleSec = @ + deltaSec,
                         !.idleDrainPct = @ + drainPct,
                         !.idleDrainmWh = @ + drainmWh]
        [] nextEvent.state = "Charging" ->
             [acc EXCEPT !.chargingSec = @ + deltaSec]
        [] OTHER -> acc

pairStep(acc, currentEvent, nextEvent, tz) ==
  LET deltaSec == Max(0, Val(getTime(nextEvent.timestamp, tz))
                         - Val(getTime(currentEvent.timestamp, tz)))
      drainPct == Max(0, currentEvent.percent - nextEvent.percent)
      drainmWh == IF truthy(currentEvent.mWh) /\ truthy(nextEvent.mWh)
                  THEN Max(0, Val(currentEvent.mWh) - Val(nextEvent.mWh))
                  ELSE 0
  IN  CASE currentEvent.state = "Active" ->
             [acc EXCEPT !.activeSec = @ + deltaSec,
                         !.activeDrainPct = @ + drainPct,
                         !.activeDrainmWh = @ + drainmWh]
        [] currentEvent.state = "Idle" ->
             [acc EXCEPT !.idleSec = @ + deltaSec,
                         !.idleDrainPct = @ + drainPct,
                         !.idleDrainmWh = @ + drainmWh]
        [] currentEvent.state = "Charging" ->
             [acc EXCEPT !.chargingSec = @ + deltaSec]
        [] OTHER -> acc

RECURSIVE pairLoop(_, _, _, _)
pairLoop(events, i, acc, tz) ==
  IF i >= Len(events) - 1 THEN acc
  ELSE pairLoop(events, i + 1,
                pairStep(acc, At(events, i), At(events, i + 1), tz), tz)

\* amount / (minutes / 60), minutes = sec / SecPerMin.
perHour(amount, sec) == Rat(amount * 60 * SecPerMin, sec)

isCompleteOf_orEqual(startPct, endPct) == endPct <= startPct

isCompleteOf(startPct, endPct) == endPct < startPct

analyzeSession(events, sessionId, tz) ==
  IF Len(events) = 0 THEN createEmptySession(sessionId)
  ELSE
    LET firstEvent == events[1]
        lastEvent == events[Len(events)]
        startPct == firstEvent.percent
        endPct == lastEvent.percent
        startmWh == firstEvent.mWh
        endmWh == lastEvent.mWh
        usedmWh == IF truthy(startmWh) /\ truthy(endmWh)
                   THEN Some(Max(0, Val(startmWh) - Val(endmWh))) ELSE None
        durationSec == Max(0, Val(getTime(lastEvent.timestamp, tz))
                              - Val(getTime(firstEvent.timestamp, tz)))
        t == pairLoop(events, 0, ZeroTotals, tz)
    IN  [sessionId |-> sessionId,
         startTime |-> Some(firstEvent.timestamp),
         endTime |-> Some(lastEvent.timestamp),
         startPct |-> startPct, endPct |-> endPct,
         usedPct |-> Max(0, startPct - endPct),
         startmWh |-> startmWh, endmWh |-> endmWh, usedmWh |-> usedmWh,
         durationMin |-> Rat(durationSec, SecPerMin),
         activeMinutes |-> Rat(t.activeSec, SecPerMin),
         idleMinutes |-> Rat(t.idleSec, SecPerMin),
         chargingMinutes |-> Rat(t.chargingSec, SecPerMin),
         activeDrainPct |-> t.activeDrainPct,
         idleDrainPct |-> t.idleDrainPct,
         activeRate_pct_per_hr |->
           IF t.activeSec > 0 THEN perHour(t.activeDrainPct, t.activeSec)
           ELSE Zero,
         idleRate_pct_per_hr |->
           IF t.idleSec > 0 THEN perHour(t.idleDrainPct, t.idleSec) ELSE Zero,
         activeRate_mWh_per_hr |->
           IF t.activeSec > 0 /\ t.activeDrainmWh > 0
           THEN Some(perHour(t.activeDrainmWh, t.activeSec)) ELSE None,
         idleRate_mWh_per_hr |->
           IF t.idleSec > 0 /\ t.idleDrainmWh > 0
           THEN Some(perHour(t.idleDrainmWh, t.idleSec)) ELSE None,
         events |-> events,
         isComplete |-> isCompleteOf(startPct, endPct)]

\* ---- JavaScript numbers of minutes -------------------------------------------
\* analyzeSession holds its minutes as IEEE 754 doubles: every division and
\* every += rounds its result to Significand binary digits, to nearest, ties
\* to even.  A gap between two events is a whole number of seconds, so the
\* smallest non-zero quotient is 1/60 > 2^-6, and a double at or above 2^-6
\* is a whole multiple of 2^-58, hence of 2^-UnitBits.  A double of minutes is
\* written here as that multiple: a natural number in digits of base Base,
\* least significant digit first, with no leading zero (zero is the empty
\* sequence).
Significand == 53
UnitBits == 64
DigitBits == 16
Base == 65536

RECURSIVE Big(_)
Big(n) == IF n = 0 THEN <<>> ELSE <<n % Base>> \o Big(n \div Base)

RECURSIVE Canonical(_)
Canonical(digits) ==
  IF digits = <<>> \/ digits[Len(digits)] # 0 THEN digits
  ELSE Canonical(SubSeq(digits, 1, Len(digits) - 1))

DigitAt(a, i) == IF i <= Len(a) THEN a[i] ELSE 0

RECURSIVE addFrom(_, _, _, _)
addFrom(a, b, i, carry) ==
  IF i > Len(a) /\ i > Len(b) THEN Big(carry)
  ELSE LET s == DigitAt(a, i) + DigitAt(b, i) + carry
       IN  <<s % Base>> \o addFrom(a, b, i + 1, s \div Base)

\* The exact sum of two naturals.
BigAdd(a, b) == addFrom(a, b, 1, 0)

RECURSIVE timesFrom(_, _, _, _)
timesFrom(a, k, i, carry) ==
  IF i > Len(a) THEN Big(carry)
  ELSE LET s == k * a[i] + carry
       IN  <<s % Base>> \o timesFrom(a, k, i + 1, s \div Base)

\* The exact product of a natural and an integer in 1..(Base \div 2).
BigTimes(a, k) == timesFrom(a, k, 1, 0)

\* a * 2^k, exactly.
ShiftLeft(a, k) ==
  IF a = <<>> THEN <<>>
  ELSE [i \in 1..(k \div DigitBits) |-> 0] \o BigTimes(a, 2 ^ (k % DigitBits))

BigLeq(a, b) ==
  LET differ == {i \in 1..Len(a) : a[i] # DigitAt(b, i)}
  IN  \/ Len(a) < Len(b)
      \/ /\ Len(a) = Len(b)
         /\ \/ differ = {}
            \/ LET top == CHOOSE i \in differ : \A j \in differ : j <= i
               IN  a[top] < b[top]

\* The binary digit of weight 2^i, and the number of binary digits.
BitAt(a, i) ==
  (DigitAt(a, i \div DigitBits + 1) \div 2 ^ (i % DigitBits)) % 2
BitLength(a) ==
  IF a = <<>> THEN 0
  ELSE DigitBits * (Len(a) - 1)
       + (CHOOSE k \in 1..DigitBits :
            2 ^ (k - 1) <= a[Len(a)] /\ a[Len(a)] < 2 ^ k)

\* Rounding of an exact result to a double; inexact says that the exact
\* result lies above the digits given.
roundToDouble(a, inexact) ==
  LET drop == BitLength(a) - Significand
  IN  IF drop <= 0 THEN a
      ELSE LET half == BitAt(a, drop - 1) = 1
               more == inexact \/ \E i \in 0..(drop - 2) : BitAt(a, i) = 1
               odd == BitAt(a, drop) = 1
               whole == drop \div DigitBits
               part == 2 ^ (drop % DigitBits)
               kept == [i \in 1..Len(a) |->
                          IF i <= whole THEN 0
                          ELSE IF i = whole + 1 THEN (a[i] \div part) * part
                          ELSE a[i]]
           IN  IF half /\ (more \/ odd)
               THEN BigAdd(kept, ShiftLeft(<<1>>, drop))
               ELSE kept

\* n / d in doubles, for naturals n and d with n < d * Base: the quotient's
\* whole part, then UnitBits digits after the point by long division, then
\* the rounding.
DoubleDiv(n, d) ==
  LET r0 == n % d
      r1 == (r0 * Base) % d
      r2 == (r1 * Base) % d
      r3 == (r2 * Base) % d
      r4 == (r3 * Base) % d
      exact == Canonical(<<(r3 * Base) \div d, (r2 * Base) \div d,
                           (r1 * Base) \div d, (r0 * Base) \div d, n \div d>>)
  IN  roundToDouble(exact, r4 # 0)

\* a + b in doubles.
DoubleAdd(a, b) == roundToDouble(BigAdd(a, b), FALSE)

\* Math.max(0, (later.getTime() - earlier.getTime()) / (1000 * 60)): the
\* quotient of the milliseconds by 60000 is the quotient of the seconds by 60.
minutesBetween(earlier, later, tz) ==
  DoubleDiv(Max(0, Val(getTime(later.timestamp, tz))
                   - Val(getTime(earlier.timestamp, tz))), SecPerMin)

ZeroMinutes ==
  [activeMinutes |-> <<>>, idleMinutes |-> <<>>, chargingMinutes |-> <<>>]

minuteStep_unknownAsIdle(acc, currentEvent, nextEvent, tz) ==
  LET deltaMinutes == minutesBetween(currentEvent, nextEvent, tz)
  IN  CASE currentEvent.state = "Active" ->
             [acc EXCEPT !.activeMinutes = DoubleAdd(@, deltaMinutes)]
        [] currentEvent.state = "Charging" ->
             [acc EXCEPT !.chargingMinutes = DoubleAdd(@, deltaMinutes)]
        [] OTHER ->
             [acc EXCEPT !.idleMinutes = DoubleAdd(@, deltaMinutes)]

\* One turn of analyzeSession's loop, for the three sums of deltaMinutes.
minuteStep(acc, currentEvent, nextEvent, tz) ==
  LET deltaMinutes == minutesBetween(currentEvent, nextEvent, tz)
  IN  CASE currentEvent.state = "Active" ->
             [acc EXCEPT !.activeMinutes = DoubleAdd(@, deltaMinutes)]
        [] currentEvent.state = "Idle" ->
             [acc EXCEPT !.idleMinutes = DoubleAdd(@, deltaMinutes)]
        [] currentEvent.state = "Charging" ->
             [acc EXCEPT !.chargingMinutes = DoubleAdd(@, deltaMinutes)]
        [] OTHER -> acc

RECURSIVE minuteLoop(_, _, _, _)
minuteLoop(events, i, acc, tz) ==
  IF i >= Len(events) - 1 THEN acc
  ELSE minuteLoop(events, i + 1,
                  minuteStep(acc, At(events, i), At(events, i + 1), tz), tz)

\* durationMin, activeMinutes, idleMinutes and chargingMinutes of
\* analyzeSession(events, sessionId) for a non-empty events, as doubles.
sessionMinutes(events, tz) ==
  LET t == minuteLoop(events, 0, ZeroMinutes, tz)
  IN  [durationMin |-> minutesBetween(events[1], events[Len(events)], tz),
       activeMinutes |-> t.activeMinutes,
       idleMinutes |-> t.idleMinutes,
       chargingMinutes |-> t.chargingMinutes]

\* ---- SessionDetector.calculateSummary and detectSessions ----------------------
RECURSIVE sumOver(_, _)
sumOver(rats, i) ==
  IF i > Len(rats) THEN Zero ELSE RatAdd(rats[i], sumOver(rats, i + 1))

isCompleteSession(s) == s.isComplete

ZeroSummary ==
  [totalSessions |-> 0, avgScreenOnTime |-> 0, avgActiveDrain |-> Zero,
   avgIdleDrain |-> Zero]

calculateSummary_allSessions(sessions) ==
  LET completeSessions == sessions
      n == Len(completeSessions)
      totalActiveMinutes ==
        sumOver([k \in 1..n |-> completeSessions[k].activeMinutes], 1)
      totalActiveDrain ==
        sumOver([k \in 1..n |-> completeSessions[k].activeRate_pct_per_hr], 1)
      totalIdleDrain ==
        sumOver([k \in 1..n |-> completeSessions[k].idleRate_pct_per_hr], 1)
  IN  IF n = 0 THEN ZeroSummary
      ELSE [totalSessions |-> n,
            avgScreenOnTime |->
              MathRound(totalActiveMinutes.num, totalActiveMinutes.den * n),
            avgActiveDrain |-> toFixed2(RatDivInt(totalActiveDrain, n)),
            avgIdleDrain |-> toFixed2(RatDivInt(totalIdleDrain, n))]

calculateSummary_pooled(sessions) ==
  LET completeSessions == SelectSeq(sessions, isCompleteSession)
      n == Len(completeSessions)
      totalActiveMinutes ==
        sumOver([k \in 1..n |-> completeSessions[k].activeMinutes], 1)
      totalIdleMinutes ==
        sumOver([k \in 1..n |-> completeSessions[k].idleMinutes], 1)
      totalActiveDrain ==
        sumOver([k \in 1..n |-> Rat(completeSessions[k].activeDrainPct, 1)], 1)
      totalIdleDrain ==
        sumOver([k \in 1..n |-> Rat(completeSessions[k].idleDrainPct, 1)], 1)
      pooled(drain, minutes) ==
        IF RatPositive(minutes)
        THEN Rat(drain.num * 60 * minutes.den, drain.den * minutes.num)
        ELSE Zero
  IN  IF n = 0 THEN ZeroSummary
      ELSE [totalSessions |-> n,
            avgScreenOnTime |->
              MathRound(totalActiveMinutes.num, totalActiveMinutes.den * n),
            avgActiveDrain |-> toFixed2(pooled(totalActiveDrain, totalActiveMinutes)),
            avgIdleDrain |-> toFixed2(pooled(totalIdleDrain, totalIdleMinutes))]

calculateSummary(sessions) ==
  LET completeSessions == SelectSeq(sessions, isCompleteSession)
      n == Len(completeSessions)
      totalActiveMinutes ==
        sumOver([k \in 1..n |-> completeSessions[k].activeMinutes], 1)
      totalActiveDrain ==
        sumOver([k \in 1..n |-> completeSessions[k].activeRate_pct_per_hr], 1)
      totalIdleDrain ==
        sumOver([k \in 1..n |-> completeSessions[k].idleRate_pct_per_hr], 1)
  IN  IF n = 0 THEN ZeroSummary
      ELSE [totalSessions |-> n,
            avgScreenOnTime |->
              MathRound(totalActiveMinutes.num, totalActiveMinutes.den * n),
            avgActiveDrain |-> toFixed2(RatDivInt(totalActiveDrain, n)),
            avgIdleDrain |-> toFixed2(RatDivInt(totalIdleDrain, n))]

createEmptyAnalysis_default(fullChargeThreshold) ==
  [sessions |-> <<>>, fullChargeEvents |-> <<>>,
   settings |-> [fullChargeThreshold |-> DEFAULT_FULL_CHARGE_THRESHOLD],
   summary |-> ZeroSummary]

createEmptyAnalysis(fullChargeThreshold) ==
  [sessions |-> <<>>, fullChargeEvents |-> <<>>,
   settings |-> [fullChargeThreshold |-> fullChargeThreshold],
   summary |-> ZeroSummary]

\* thresholdArg is None when the caller omits the second argument.
detectSessions(data, thresholdArg, tz) ==
  LET fullChargeThreshold == IF IsSome(thresholdArg) THEN Val(thresholdArg)
                             ELSE DEFAULT_FULL_CHARGE_THRESHOLD
      events == data.events
      fullChargeEvents == findFullChargeEvents(events, fullChargeThreshold)
      sessions == createSessions(events, fullChargeEvents)
      analyzedSessions ==
        [k \in 1..Len(sessions) |-> analyzeSession(sessions[k], k, tz)]
  IN  IF Len(events) = 0 THEN createEmptyAnalysis(fullChargeThreshold)
      ELSE [sessions |-> analyzedSessions,
            fullChargeEvents |-> fullChargeEvents,
            settings |-> [fullChargeThreshold |-> fullChargeThreshold],
            summary |-> calculateSummary(analyzedSessions)]

\* The events array of data after detectSessions has run on it: the code
\* reads it with events[i], events.length and events.slice only, and assigns
\* to no element and to no field of an event.
eventsAfterDetect_splice(events, fullChargeEvents) ==
  LET ranges == sessionRanges(events, fullChargeEvents)
  IN  IF Len(ranges) = 0 THEN events
      ELSE SubSeq(events, 1, ranges[1].dischargeStart)
           \o SubSeq(events, ranges[1].sessionEnd + 2, Len(events))

eventsAfterDetect(events, fullChargeEvents) == events

\* ---- FileUpload -------------------------------------------------------------
\* A File, by what the component does with it: oversize (size above the
\* 10MB limit), readable (text() fulfils), isHtml (the text contains "<html"
\* or "<!doctype"), and the text, as lines or as an HTML document.
TextFile(lines) ==
  [oversize |-> FALSE, readable |-> TRUE, isHtml |-> FALSE, lines |-> lines,
   html |-> [rows |-> <<>>, outside |-> <<>>]]
HtmlFile(html) ==
  [oversize |-> FALSE, readable |-> TRUE, isHtml |-> TRUE, lines |-> <<>>,
   html |-> html]

\* BatteryLogParser.parseFile, once file.text() has fulfilled.
parseFile(f, today, tz) ==
  IF f.isHtml THEN parseHTMLReport(f.html, today, tz)
  ELSE parseText(f.lines, today, tz)

\* textInput.trim() is the empty string.
trimIsEmpty(text) == \A k \in 1..Len(text) : text[k].length = 0

\* The try block of processData down to parsedData: what was thrown, or what
\* was parsed.  chosen is the file state, None for null.
parseAttempt(chosen, text, today, tz) ==
  IF IsSome(chosen)
  THEN IF Val(chosen).readable
       THEN [thrown |-> None, parsedData |-> Some(parseFile(Val(chosen), today, tz))]
       ELSE [thrown |-> Some("The file could not be read"), parsedData |-> None]
  ELSE IF ~trimIsEmpty(text)
       THEN [thrown |-> None, parsedData |-> Some(parseText(text, today, tz))]
       ELSE [thrown |-> Some("No data to process"), parsedData |-> None]

processDataFrom_handUnchecked(attempt, tz) ==
  IF IsSome(attempt.thrown)
  THEN [error |-> <<Val(attempt.thrown)>>, parseResult |-> None, handed |-> None]
  ELSE LET checked == validateData(Val(attempt.parsedData), tz)
       IN  IF ~checked.isValid
           THEN [error |-> <<"Data validation failed: ">> \o checked.issues,
                 parseResult |-> None, handed |-> attempt.parsedData]
           ELSE [error |-> <<>>, parseResult |-> attempt.parsedData,
                 handed |-> attempt.parsedData]

\* The rest of processData: the error and parseResult states it leaves and
\* the data it hands to onDataParsed (None: no call).  The error message is
\* the sequence of its pieces.
processDataFrom(attempt, tz) ==
  IF IsSome(attempt.thrown)
  THEN [error |-> <<Val(attempt.thrown)>>, parseResult |-> None, handed |-> None]
  ELSE LET checked == validateData(Val(attempt.parsedData), tz)
       IN  IF ~checked.isValid
           THEN [error |-> <<"Data validation failed: ">> \o checked.issues,
                 parseResult |-> None, handed |-> None]
           ELSE [error |-> <<>>, parseResult |-> attempt.parsedData,
                 handed |-> attempt.parsedData]

\* ---- Dashboard --------------------------------------------------------------
defaultSession_first(found) ==
  IF Len(found.sessions) > 0 THEN Some(found.sessions[1]) ELSE None

\* firstCompleteSession || analysis.sessions[0] || null.
defaultSession(found) ==
  LET complete == {k \in 1..Len(found.sessions) : found.sessions[k].isComplete}
  IN  IF complete # {}
      THEN Some(found.sessions[CHOOSE k \in complete :
                                 \A j \in complete : k <= j])
      ELSE IF Len(found.sessions) > 0 THEN Some(found.sessions[1])
      ELSE None

\* ---- the inputs of the model --------------------------------------------
Day1 == DateStr(10)
Day2 == DateStr(11)
T_0010 == TimeStr(600)
T_0800 == TimeStr(28800)
T_0900_30 == TimeStr(32430)
T_2350 == TimeStr(85800)

Lines ==
  { DataLine(None, T_2350, L_Active, Some(90), None),
    DataLine(None, T_0010, L_ConnectedStandby, Some(80), Some(40)),
    DataLine(Some(Day1), T_0900_30, L_Active, Some(150), Some(50)),
    DataLine(Some(Day1), T_0800, L_Charging, Some(99), None),
    DataLine(Some(Day1), InvalidTimeStr, L_Active, Some(90), None),
    DataLine(Some(InvalidDateStr), T_0800, L_Active, Some(90), None),
    DataLine(Some(Day2), T_0010, L_Active, None, None),
    HeaderLine,
    BlankLine }

SeqsUpTo(S, n) == UNION {[1..k -> S] : k \in 0..n}

Texts == SeqsUpTo(Lines, MaxLines)

HtmlRows ==
  { TableRow(<<TsCell(Some(Day1), T_0900_30), TextCell(L_Active),
               TextCell(L_Battery), PercentCell(90), MWhCell(50)>>),
    TableRow(<<TsCell(None, T_0800), TextCell(L_ConnectedStandby),
               PercentCell(80)>>),
    TableRow(<<TsCell(Some(Day1), InvalidTimeStr), TextCell(L_Charging),
               PercentCell(99)>>),
    TableRow(<<TextCell(L_Battery), PercentCell(80)>>),
    HeaderRow(<<TextCell(L_Unknown), TextCell(L_Active), TextCell(L_Battery)>>) }

HtmlDocs ==
  { [rows |-> r, outside |-> o] :
      r \in SeqsUpTo(HtmlRows, MaxRows),
      o \in { <<>>,
              <<DataLine(Some(Day1), T_0800, L_Active, Some(90), None)>> } }

TimeZones == {-18000, 19800}
ThresholdArgs == {None, Some(100)}

LabelOf(state) ==
  CASE state = "Active" -> L_Active
    [] state = "Idle" -> L_ConnectedStandby
    [] state = "Charging" -> L_Charging
    [] OTHER -> L_ScreenOff

Event(time, state, percent, mWh) ==
  BatteryEvent(Timestamp(Day1, time), state, percent, mWh, LabelOf(state))

\* A ParsedBatteryData around an events array, with the offsets and the
\* metadata the parser would give it.
DataOf(events) ==
  [events |-> computeOffsets(events, 0),
   startDate |-> IF Len(events) > 0 THEN getTime(events[1].timestamp, 0)
                 ELSE None,
   errors |-> <<>>,
   metadata |-> metadataOf(events)]

\* Long logs: one reading every ten minutes, each of one of three kinds.
Readings == {<<"Active", 99>>, <<"Active", 60>>, <<"Charging", 98>>}

LongLogs ==
  { [k \in 1..Len(q) |->
       Event(TimeStr(28800 + 600 * (k - 1)), q[k][1], q[k][2], None)] :
      q \in SeqsUpTo(Readings, MaxEvents) }

\* Short logs of any shape: percent rising or out of range, energy rising,
\* absent or 0, time going backwards.
RichEvents ==
  { Event(T_0800, "Active", 90, Some(50)),
    Event(T_0900_30, "Active", 80, Some(40)),
    Event(T_0800, "Idle", 80, None),
    Event(T_0900_30, "Idle", 70, Some(0)),
    Event(T_0900_30, "Charging", 97, Some(60)),
    Event(T_0800, "Unknown", 101, Some(50)),
    Event(T_0900_30, "Active", -1, None),
    Event(T_0800, "Active", 80, Some(40)),
    Event(T_0900_30, "Active", 95, Some(60)) }

ShortLogs == SeqsUpTo(RichEvents, MaxRich)

\* Logs long enough to pass the "very few events" test of validateData.
CheckedEvents ==
  { Event(T_0800, "Active", 90, None),
    Event(T_0900_30, "Active", 150, None),
    Event(T_0900_30, "Idle", -1, None) }

CheckedLogs == SeqsUpTo(CheckedEvents, MaxChecked)

\* Logs of charge cycles: one reading every ten minutes, the battery either
\* in use at 60 % or on the charger at 99 %.
CycleReadings == {<<"Active", 60>>, <<"Charging", 99>>}

CycleLogs ==
  { [k \in 1..Len(q) |->
       Event(TimeStr(28800 + 600 * (k - 1)), q[k][1], q[k][2], None)] :
      q \in SeqsUpTo(CycleReadings, MaxCross) }

\* Logs of draining sessions: one reading every ten minutes; a full battery
\* in use, a battery idling just at the threshold, a half-empty one in use.
DrainReadings == {<<"Active", 99>>, <<"Idle", 98>>, <<"Active", 50>>}

DrainLogs ==
  { [k \in 1..Len(q) |->
       Event(TimeStr(28800 + 600 * (k - 1)), q[k][1], q[k][2], None)] :
      q \in SeqsUpTo(DrainReadings, MaxEvents) }

\* Logs with gaps of seconds: a first reading at 08:00:00 and each further
\* one GapSeconds after the one before (once, ten seconds before it).
GapSeconds == {-10, 0, 10, 20, 30, 60, 70}
GapStates == {"Active", "Idle", "Charging", "Unknown"}

RECURSIVE timeAfter(_, _)
timeAfter(gaps, k) ==
  IF k = 0 THEN 28800 ELSE timeAfter(gaps, k - 1) + gaps[k]

GapLogs ==
  { [k \in 1..Len(q) |-> Event(TimeStr(timeAfter(g, k - 1)), q[k], 80, None)] :
      q \in {s \in SeqsUpTo(GapStates, MaxGaps + 1) : s # <<>>},
      g \in [1..MaxGaps -> GapSeconds] }

\* State labels made of words, each word with the keyword classes its
\* lower-cased text contains ("Active" contains "active" and also "ac").
LabelWords ==
  { [text |-> L_Active, has |-> {"Active", "Charging"}],
    [text |-> <<"S","T","A","N","D","B","Y">>, has |-> {"Idle"}],
    [text |-> <<"S","u","s","p","e","n","d","e","d">>, has |-> {"Idle"}],
    [text |-> <<"S","l","e","e","p">>, has |-> {"Idle"}],
    [text |-> L_Charging, has |-> {"Charging"}],
    [text |-> <<"P","l","u","g","g","e","d">>, has |-> {"Charging"}],
    [text |-> <<"A","C">>, has |-> {"Charging"}],
    [text |-> L_ScreenOff, has |-> {}],
    [text |-> L_Battery, has |-> {}] }

WordSeqs == SeqsUpTo(LabelWords, MaxWords) \ {<<>>}

\* The words joined by single spaces: one token of the line.
RECURSIVE JoinWords(_)
JoinWords(ws) ==
  IF Len(ws) = 1 THEN ws[1].text
  ELSE ws[1].text \o <<" ">> \o JoinWords(Tail(ws))

LabelTexts ==
  { <<DataLine(Some(Day1), T_0800, JoinWords(ws), Some(90), None)>> :
      ws \in WordSeqs }


\* Uploads: n good readings ten minutes apart, then perhaps one of 150 %.
GoodLine(k) ==
  DataLine(Some(Day1), TimeStr(28800 + 600 * k), L_Active, Some(90), None)
BadLine == DataLine(Some(Day1), T_2350, L_Active, Some(150), None)
GoodRow(k) ==
  TableRow(<<TsCell(Some(Day1), TimeStr(28800 + 600 * k)), TextCell(L_Active),
             TextCell(L_Battery), PercentCell(80), MWhCell(50)>>)
BadRow ==
  TableRow(<<TsCell(Some(Day1), T_2350), TextCell(L_Active), TextCell(L_Battery),
             PercentCell(150), MWhCell(50)>>)

UploadTexts ==
  { [k \in 1..n |-> GoodLine(k)] \o rest :
      n \in {0, MaxUpload - 1, MaxUpload}, rest \in {<<>>, <<BadLine>>} }
    \cup {<<BlankLine>>}
UploadDocs ==
  { [rows |-> [k \in 1..n |-> GoodRow(k)] \o rest, outside |-> <<>>] :
      n \in {MaxUpload - 1, MaxUpload}, rest \in {<<>>, <<BadRow>>} }
UploadFiles ==
  { TextFile([k \in 1..n |-> GoodLine(k)]) : n \in {MaxUpload - 1, MaxUpload} }
    \cup { HtmlFile(h) : h \in UploadDocs }
    \cup { [TextFile(<<GoodLine(1)>>) EXCEPT !.oversize = TRUE],
           [TextFile(<<GoodLine(1)>>) EXCEPT !.readable = FALSE] }

\* Data for the Dashboard: MaxDash readings ten minutes apart, the battery in
\* use at 50 % but for readings at 99 % among the first two and the last two.
DashLogs ==
  { [k \in 1..MaxDash |->
       Event(TimeStr(28800 + 600 * (k - 1)), "Active",
             IF k \in full THEN 99 ELSE 50, None)] :
      full \in SUBSET {1, 2, MaxDash - 1, MaxDash} }
\* The same logs as the parser would hand them over.
DashData == { DataOf(log) : log \in DashLogs }

\* The slider's values: its ends and the initial threshold.
SliderValues == {SliderMin, InitialThreshold, SliderMax}

\* ---- state ----------------------------------------------------------------
VARIABLES
  input,        \* what the parser is called on: [kind, text] or [kind, html]
  today,        \* the local calendar day of the run
  tz,           \* the local offset east of UTC, seconds
  data,         \* the ParsedBatteryData at hand: None before the parse
  given,        \* history: data as the parser returned it, or as handed in
  validation,   \* the last return value of validateData, or None
  analysis,     \* the last return value of detectSessions, or None
  lastArg,      \* the threshold argument of that call (Some(arg)), or None
  ranges,       \* history: the index ranges of the sessions of that call
  firstResult,  \* history: per threshold argument, the first return value
  superseded,   \* history: the arguments called with and then followed by a
                \* call with another argument
  recalled,     \* history: the last call repeated an argument after a call
                \* with another argument
  minutes,      \* the doubles of the four minute fields of an analyzeSession
                \* result, or None
  file,         \* FileUpload: the chosen file, or None
  textInput,    \* FileUpload: the text in the textarea
  error,        \* FileUpload: the error message, <<>> for the empty string
  isProcessing, \* FileUpload: processData is under way
  parseResult,  \* FileUpload: the data of the last successful run, or None
  pending,      \* the file whose text() processData awaits, or None
  batteryData,  \* Home: the data handed to onDataParsed, Dashboard's data prop
  ran,          \* history: the file, or else the text, of the processData
                \* call that has just returned; None once a handler ran
  called,       \* history: that call has called onDataParsed
  fullChargeThreshold,  \* Dashboard: the threshold state
  sessionAnalysis,      \* Dashboard: the analysis state, or None
  selectedSession,      \* Dashboard: the selected session, or None
  effectDue,    \* Dashboard: data or threshold changed since the effect last ran
  picked        \* history: a session was clicked since the effect last ran

vars == <<input, today, tz, data, given, validation, analysis, lastArg,
          ranges, firstResult, superseded, recalled,
          minutes, file, textInput, error, isProcessing, parseResult, pending,
          batteryData, ran, called, fullChargeThreshold,
          sessionAnalysis, selectedSession, effectDue, picked>>

\* The parser's and the detector's variables, and the components'.
coreVars == <<input, today, tz, data, given, validation, analysis, lastArg,
              ranges, firstResult, superseded, recalled, minutes>>
uploadVars == <<file, textInput, error, isProcessing, parseResult, pending, ran,
                called>>
dashVars == <<fullChargeThreshold, sessionAnalysis, selectedSession, effectDue,
              picked>>
uiVars == <<uploadVars, batteryData, dashVars>>

NoCalls ==
  /\ validation = None
  /\ analysis = None
  /\ lastArg = None
  /\ ranges = <<>>
  /\ firstResult = [a \in ThresholdArgs |-> None]
  /\ superseded = {}
  /\ recalled = FALSE
  /\ minutes = None
  /\ file = None
  /\ textInput = <<>>
  /\ error = <<>>
  /\ isProcessing = FALSE
  /\ parseResult = None
  /\ pending = None
  /\ batteryData = None
  /\ ran = None
  /\ called = FALSE
  /\ fullChargeThreshold = InitialThreshold
  /\ sessionAnalysis = None
  /\ selectedSession = None
  /\ effectDue = TRUE
  /\ picked = FALSE

InitText ==
  /\ input \in { [kind |-> "text", text |-> t] : t \in Texts }
                \cup { [kind |-> "html", html |-> h] : h \in HtmlDocs }
  /\ today = 12
  /\ tz \in TimeZones
  /\ data = None
  /\ given = None
  /\ NoCalls

InitData(logs) ==
  /\ input = [kind |-> "none"]
  /\ today = 12
  /\ tz = 0
  /\ data \in { Some(DataOf(ev)) : ev \in logs }
  /\ given = data
  /\ NoCalls

Init == InitText \/ InitData(ShortLogs \cup CheckedLogs)

InitLong == InitData(LongLogs)

InitCycle == InitData(CycleLogs)

InitDrain == InitData(DrainLogs)

InitMinutes == InitData(GapLogs)

InitLabels ==
  /\ input \in { [kind |-> "text", text |-> t] : t \in LabelTexts }
  /\ today = 12
  /\ tz \in TimeZones
  /\ data = None
  /\ given = None
  /\ NoCalls

\* ---- operations -----------------------------------------------------------
ParseText ==
  /\ input.kind = "text"
  /\ data = None
  /\ data' = Some(parseText(input.text, today, tz))
  /\ given' = data'
  /\ UNCHANGED <<input, today, tz, validation, analysis, lastArg, ranges,
                 firstResult, superseded, recalled,
                 minutes, uiVars>>

ParseHTMLReport ==
  /\ input.kind = "html"
  /\ data = None
  /\ data' = Some(parseHTMLReport(input.html, today, tz))
  /\ given' = data'
  /\ UNCHANGED <<input, today, tz, validation, analysis, lastArg, ranges,
                 firstResult, superseded, recalled,
                 minutes, uiVars>>

ValidateData ==
  /\ IsSome(data)
  /\ validation' = Some(validateData(Val(data), tz))
  /\ UNCHANGED <<input, today, tz, data, given, analysis, lastArg, ranges,
                 firstResult, superseded, recalled,
                 minutes, uiVars>>

DetectSessions(arg) ==
  /\ IsSome(data)
  /\ LET d == Val(data)
         result == detectSessions(d, arg, tz)
     IN  /\ analysis' = Some(result)
         /\ lastArg' = Some(arg)
         /\ ranges' = IF Len(d.events) = 0 THEN <<>>
                      ELSE sessionRanges(d.events, result.fullChargeEvents)
         /\ firstResult' = IF IsSome(firstResult[arg]) THEN firstResult
                           ELSE [firstResult EXCEPT ![arg] = Some(result)]
         /\ data' = Some([d EXCEPT !.events =
                            eventsAfterDetect(@, result.fullChargeEvents)])
         /\ recalled' = (arg \in superseded)
         /\ superseded' = (superseded \cup {a \in ThresholdArgs :
                                               lastArg = Some(a) /\ a # arg})
                          \ {arg}
  /\ UNCHANGED <<input, today, tz, given, validation,
                 minutes, uiVars>>

Next ==
  \/ ParseText
  \/ ParseHTMLReport
  \/ ValidateData
  \/ \E arg \in ThresholdArgs : DetectSessions(arg)

Spec == Init /\ [][Next]_vars

\* The segmenter alone, on the long logs.
NextLong == \E arg \in ThresholdArgs : DetectSessions(arg)

SpecLong == InitLong /\ [][NextLong]_vars

\* The segmenter alone, on the logs of charge cycles.
SpecCycle == InitCycle /\ [][NextLong]_vars

\* The segmenter alone, on the logs of draining sessions.
SpecDrain == InitDrain /\ [][NextLong]_vars

\* The text parser alone, on one-line texts over the state labels.
NextLabels == ParseText

SpecLabels == InitLabels /\ [][NextLabels]_vars

\* analyzeSession alone, on the logs with gaps of seconds.
AnalyzeSession ==
  /\ IsSome(data)
  /\ Len(Val(data).events) > 0
  /\ minutes = None
  /\ minutes' = Some(sessionMinutes(Val(data).events, tz))
  /\ UNCHANGED <<input, today, tz, data, given, validation, analysis, lastArg,
                 ranges, firstResult, superseded, recalled, uiVars>>

NextMinutes == AnalyzeSession

SpecMinutes == InitMinutes /\ [][NextMinutes]_vars

\* The components mounted, nothing chosen yet.
InitMounted ==
  /\ input = [kind |-> "none"]
  /\ today = 12
  /\ tz \in TimeZones
  /\ data = None
  /\ given = None
  /\ NoCalls

\* FileUpload.handleFileUpload and handleDrop.
HandleFileUpload(f) ==
  /\ IF f.oversize
     THEN /\ error' = <<"File size must be less than 10MB">>
          /\ UNCHANGED file
     ELSE /\ file' = Some(f)
          /\ error' = <<>>
  /\ ran' = None
  /\ called' = FALSE
  /\ UNCHANGED <<coreVars, textInput, isProcessing, parseResult, pending,
                 batteryData, dashVars>>

\* The textarea's onChange.
TextInputChange(text) ==
  /\ textInput' = text
  /\ ran' = None
  /\ called' = FALSE
  /\ UNCHANGED <<coreVars, file, error, isProcessing, parseResult, pending,
                 batteryData, dashVars>>

\* What processData does from parsedData on; Home's setBatteryData is the
\* onDataParsed it calls.
Settle(chosen) ==
  LET out == processDataFrom(parseAttempt(chosen, textInput, today, tz), tz)
  IN  /\ error' = out.error
      /\ parseResult' = out.parseResult
      /\ called' = IsSome(out.handed)
      /\ batteryData' = IF IsSome(out.handed) THEN out.handed ELSE batteryData
      /\ effectDue' = (effectDue \/ IsSome(out.handed))
      /\ isProcessing' = FALSE
      /\ pending' = None
      /\ ran' = Some([file |-> chosen,
                      textInput |-> IF IsSome(chosen) THEN <<>> ELSE textInput])

\* A click on the button, enabled while there is a file or text and no run
\* under way: processData, as far as its first await.  With a file it stops
\* at file.text(); without one it runs to its end.
ProcessData ==
  /\ ~isProcessing
  /\ IsSome(file) \/ ~trimIsEmpty(textInput)
  /\ IF IsSome(file)
     THEN /\ isProcessing' = TRUE
          /\ error' = <<>>
          /\ parseResult' = None
          /\ pending' = file
          /\ ran' = None
          /\ called' = FALSE
          /\ UNCHANGED <<batteryData, effectDue>>
     ELSE Settle(None)
  /\ UNCHANGED <<coreVars, file, textInput, fullChargeThreshold,
                 sessionAnalysis, selectedSession, picked>>

\* file.text() fulfils or rejects and processData runs to its end.
FileTextSettled ==
  /\ IsSome(pending)
  /\ Settle(pending)
  /\ UNCHANGED <<coreVars, file, textInput, fullChargeThreshold,
                 sessionAnalysis, selectedSession, picked>>

NextUpload ==
  \/ \E f \in UploadFiles : HandleFileUpload(f)
  \/ \E text \in UploadTexts : TextInputChange(text)
  \/ ProcessData
  \/ FileTextSettled

SpecUpload == InitMounted /\ [][NextUpload]_vars

\* Home's setBatteryData, called as onDataParsed with data that passed
\* validateData: Dashboard's data prop changes.
DataParsed(parsedData) ==
  /\ validateData(parsedData, tz).isValid
  /\ batteryData' = Some(parsedData)
  /\ effectDue' = TRUE
  /\ UNCHANGED <<coreVars, uploadVars, fullChargeThreshold, sessionAnalysis,
                 selectedSession, picked>>

\* SessionSelector.handleThresholdChange and Dashboard.handleThresholdChange:
\* the slider is there once there is an analysis; a state set to the value it
\* has schedules nothing.
ThresholdChange(threshold) ==
  /\ IsSome(sessionAnalysis)
  /\ fullChargeThreshold' = threshold
  /\ effectDue' = (effectDue \/ threshold # fullChargeThreshold)
  /\ UNCHANGED <<coreVars, uploadVars, batteryData, sessionAnalysis,
                 selectedSession, picked>>

\* A click on a session of the list: onSessionSelect is setSelectedSession.
SessionSelect(k) ==
  /\ IsSome(sessionAnalysis)
  /\ k \in 1..Len(Val(sessionAnalysis).sessions)
  /\ selectedSession' = Some(Val(sessionAnalysis).sessions[k])
  /\ picked' = TRUE
  /\ UNCHANGED <<coreVars, uploadVars, batteryData, fullChargeThreshold,
                 sessionAnalysis, effectDue>>

\* Dashboard's effect on [data, fullChargeThreshold].
Effect ==
  /\ effectDue
  /\ IF IsSome(batteryData)
     THEN LET d == Val(batteryData)
              found == detectSessions(d, Some(fullChargeThreshold), tz)
          IN  /\ sessionAnalysis' = Some(found)
              /\ selectedSession' = defaultSession(found)
              /\ batteryData' =
                   Some([d EXCEPT !.events =
                           eventsAfterDetect(@, found.fullChargeEvents)])
     ELSE /\ sessionAnalysis' = None
          /\ selectedSession' = None
          /\ UNCHANGED batteryData
  /\ effectDue' = FALSE
  /\ picked' = FALSE
  /\ UNCHANGED <<coreVars, uploadVars, fullChargeThreshold>>

NextDashboard ==
  \/ \E parsedData \in DashData : DataParsed(parsedData)
  \/ \E threshold \in SliderValues : ThresholdChange(threshold)
  \/ \E k \in 1..MaxDash : SessionSelect(k)
  \/ Effect

SpecDashboard == InitMounted /\ [][NextDashboard]_vars

\* ---- properties ------------------------------------------------------------
Parsed == input.kind # "none" /\ IsSome(data)
ParsedText == input.kind = "text" /\ IsSome(data)
Events == Val(data).events
Instant(e) == Val(getTime(e.timestamp, tz))
Sessions == Val(analysis).sessions

\* The lines parseLine turns into an event: those that pass every test of
\* shape and carry a percent.
Accepts(line) ==
  /\ ~line.markup
  /\ ~line.reportGenerated
  /\ line.length >= MinLineLength
  /\ line.nparts >= MinParts
  /\ IsSome(line.ts)
  /\ IsSome(line.percent)

LinesOf(text) == SelectSeq(text, nonEmpty)
AcceptedLines(text) ==
  {n \in 1..Len(LinesOf(text)) : Accepts(LinesOf(text)[n])}

\* The <tr> blocks parseTableRow turns into an event.
AcceptsRow(tr) ==
  /\ ~tr.hasTh
  /\ tr.length >= MinLineLength
  /\ Len(tr.cells) >= MinCells
  /\ IsSome(tr.cells[1].ts)
  /\ \E i \in 2..Len(tr.cells) : IsSome(tr.cells[i].percent)

AcceptedRows(html) == {n \in 1..Len(html.rows) : AcceptsRow(html.rows[n])}

\* C1: the parser's events are sorted non-decreasing by instant and, when
\* there is one, the first event's minutesOffset is 0.
C1_SortedAndFirstOffsetZero ==
  Parsed =>
    /\ \A k \in 1..(Len(Events) - 1) : Instant(Events[k]) <= Instant(Events[k + 1])
    /\ (Len(Events) > 0 => Events[1].minutesOffset = 0)

\* C2: every index of data.events lies in the slice of at most one session
\* returned by detectSessions.
C2_IndexInAtMostOneSession ==
  IsSome(analysis) =>
    \A i \in 0..(Len(Events) - 1) :
      Cardinality({k \in 1..Len(ranges) :
                     ranges[k].dischargeStart <= i /\ i <= ranges[k].sessionEnd})
        <= 1

\* C3: every session returned by detectSessions has isComplete equal to
\* (endPct < startPct), startPct and endPct being the percent of the first
\* and of the last event of the session.
C3_IsCompleteIffDrained ==
  IsSome(analysis) =>
    \A k \in 1..Len(Sessions) :
      LET s == Sessions[k]
      IN  /\ Len(s.events) > 0
          /\ s.startPct = s.events[1].percent
          /\ s.endPct = s.events[Len(s.events)].percent
          /\ s.isComplete = (s.events[Len(s.events)].percent < s.events[1].percent)

C3_Witness ==
  /\ IsSome(analysis)
  /\ \E k \in 1..Len(Sessions) :
       /\ Sessions[k].isComplete
       /\ Len(Sessions[k].events) >= 2
       /\ Sessions[k].startPct > Sessions[k].endPct

\* C4: for every session returned by detectSessions, usedPct, usedmWh when
\* present, both percent rates and both energy rates when present are >= 0.
C4_NonNegative ==
  IsSome(analysis) =>
    \A k \in 1..Len(Sessions) :
      LET s == Sessions[k]
      IN  /\ s.usedPct >= 0
          /\ (IsSome(s.usedmWh) => Val(s.usedmWh) >= 0)
          /\ RatGeq0(s.activeRate_pct_per_hr)
          /\ RatGeq0(s.idleRate_pct_per_hr)
          /\ (IsSome(s.activeRate_mWh_per_hr) => RatGeq0(Val(s.activeRate_mWh_per_hr)))
          /\ (IsSome(s.idleRate_mWh_per_hr) => RatGeq0(Val(s.idleRate_mWh_per_hr)))

\* A session in which, after an Active event, time moves on while percent
\* and energy rise.
C4_Witness ==
  /\ IsSome(analysis)
  /\ \E k \in 1..Len(Sessions) :
       LET ev == Sessions[k].events
       IN  /\ RatPositive(Sessions[k].activeMinutes)
           /\ \E i \in 1..(Len(ev) - 1) :
                /\ ev[i].state = "Active"
                /\ Instant(ev[i]) < Instant(ev[i + 1])
                /\ ev[i].percent < ev[i + 1].percent
                /\ truthy(ev[i].mWh) /\ truthy(ev[i + 1].mWh)
                /\ Val(ev[i].mWh) < Val(ev[i + 1].mWh)

C7_InvalidTimestampRecorded ==
  ParsedText =>
    LET lines == LinesOf(input.text)
        accepted == AcceptedLines(input.text)
        errors == Val(data).errors
        ownInvalid(n) == \/ ~Val(lines[n].ts).time.valid
                         \/ (IsSome(Val(lines[n].ts).date)
                             /\ ~Val(Val(lines[n].ts).date).valid)
        ownValid(n) == /\ Val(lines[n].ts).time.valid
                       /\ IsSome(Val(lines[n].ts).date)
                       /\ Val(Val(lines[n].ts).date).valid
    IN  /\ \A k \in 1..Len(errors) :
             /\ errors[k].unit = "Line"
             /\ errors[k].message = "Invalid timestamp"
             /\ errors[k].n \in accepted
             /\ ~IsSome(getTime(errors[k].value, tz))
             /\ errors[k].value.time = Val(lines[errors[k].n].ts).time
             /\ ~ownValid(errors[k].n)
        /\ \A k, l \in 1..Len(errors) : k < l => errors[k].n < errors[l].n
        /\ \A n \in accepted :
             ownInvalid(n) => \E k \in 1..Len(errors) : errors[k].n = n
        /\ \A k \in 1..Len(Events) : IsSome(getTime(Events[k].timestamp, tz))
        /\ Len(Events) + Len(errors) = Cardinality(accepted)

\* An invalid first line, and both lines after it turned into events.
C7_Witness ==
  /\ ParsedText
  /\ Len(Val(data).errors) = 1
  /\ Val(data).errors[1].n = 1
  /\ Len(Events) = 2
  /\ Cardinality(AcceptedLines(input.text)) = 3

\* C8 as stated: no two elements of the parser's events agree in timestamp,
\* rawState, percent and mWh.
C8_Deduplicated ==
  Parsed =>
    \A k, l \in 1..Len(Events) : k < l => ~sameReading(Events[k], Events[l])

\* C8 amended: events is not deduplicated.  Every accepted line (or table
\* row) yields its own event or its own error entry, and a line with an
\* explicit valid date and time that is written k times yields at least k
\* events equal to it in timestamp, rawState, percent and mWh.
C8_OneEventPerAcceptedLine ==
  /\ ParsedText =>
       LET lines == LinesOf(input.text)
           accepted == AcceptedLines(input.text)
           dated == {n \in accepted :
                       /\ Val(lines[n].ts).time.valid
                       /\ IsSome(Val(lines[n].ts).date)
                       /\ Val(Val(lines[n].ts).date).valid}
           reading(n) ==
             BatteryEvent(Timestamp(Val(Val(lines[n].ts).date),
                                    Val(lines[n].ts).time),
                          "Unknown", Val(lines[n].percent), lines[n].mWh,
                          lines[n].rawState)
       IN  /\ Len(Events) + Len(Val(data).errors) = Cardinality(accepted)
           /\ \A n \in dated :
                Cardinality({k \in 1..Len(Events) :
                               sameReading(Events[k], reading(n))})
                  >= Cardinality({m \in dated : lines[m] = lines[n]})
  /\ (input.kind = "html" /\ IsSome(data)
      /\ AcceptedRows(input.html) # {}) =>
       Len(Events) + Len(Val(data).errors)
         = Cardinality(AcceptedRows(input.html))

\* The same dated line twice, and two events equal in all four fields.
C8_Witness ==
  /\ ParsedText
  /\ \E m, n \in AcceptedLines(input.text) :
       m < n /\ LinesOf(input.text)[m] = LinesOf(input.text)[n]
  /\ \E k, l \in 1..Len(Events) : k < l /\ sameReading(Events[k], Events[l])

\* C9: detectSessions returns settings.fullChargeThreshold equal to its
\* threshold argument, 98 when the argument is omitted; on empty events it
\* returns no sessions, no fullChargeEvents and a summary of four zeros.
C9_ThresholdKeptAndEmptyAnalysis ==
  IsSome(analysis) =>
    LET a == Val(analysis)
        arg == Val(lastArg)
    IN  /\ a.settings.fullChargeThreshold = (IF IsSome(arg) THEN Val(arg) ELSE 98)
        /\ (Len(Events) = 0 =>
              /\ a.sessions = <<>>
              /\ a.fullChargeEvents = <<>>
              /\ a.summary.totalSessions = 0
              /\ a.summary.avgScreenOnTime = 0
              /\ a.summary.avgActiveDrain = Zero
              /\ a.summary.avgIdleDrain = Zero)

C9_Witness ==
  /\ IsSome(analysis)
  /\ Len(Events) = 0
  /\ lastArg = Some(Some(100))
  /\ Val(analysis).settings.fullChargeThreshold = 100

\* C10: validateData leaves data unchanged, isValid is (issues is empty), and
\* each of the four issues is reported exactly when its condition holds; a
\* parsed percent of 150 is kept as 150 in the event.
C10_IssuesIffConditions ==
  /\ IsSome(validation) =>
       LET v == Val(validation)
           has(msg) == \E k \in 1..Len(v.issues) : v.issues[k] = msg
       IN  /\ data = given
           /\ v.isValid = (v.issues = <<>>)
           /\ has("No valid battery events found") = (Len(Events) = 0)
           /\ has("Very few events found - results may not be meaningful")
                = (Len(Events) < 5)
           /\ has("Invalid battery percentage values detected")
                = (\E k \in 1..Len(Events) :
                     Events[k].percent < 0 \/ Events[k].percent > 100)
           /\ has("Timestamps are not in chronological order")
                = (\E k \in 2..Len(Events) :
                     Instant(Events[k]) < Instant(Events[k - 1]))
           /\ \A k \in 1..Len(v.issues) :
                v.issues[k] \in
                  {"No valid battery events found",
                   "Very few events found - results may not be meaningful",
                   "Invalid battery percentage values detected",
                   "Timestamps are not in chronological order"}
  /\ ParsedText =>
       \A n \in AcceptedLines(input.text) :
         LET line == LinesOf(input.text)[n]
         IN  (/\ Val(line.ts).time.valid
              /\ IsSome(Val(line.ts).date)
              /\ Val(Val(line.ts).date).valid
              /\ Val(line.percent) > 100)
             => \E k \in 1..Len(Events) : Events[k].percent = Val(line.percent)

\* Five events or more, a percent above 100 and time going backwards.
C10_Witness ==
  /\ IsSome(validation)
  /\ Len(Events) >= 5
  /\ Val(validation).issues =
       <<"Invalid battery percentage values detected",
         "Timestamps are not in chronological order">>
  /\ ~Val(validation).isValid

\* C11 as stated: every session returned by detectSessions holds more than
\* one event, whatever the non-empty input and the threshold.
C11_EverySessionMoreThanOneEvent ==
  IsSome(analysis) =>
    \A k \in 1..Len(Sessions) : Len(Sessions[k].events) > 1

\* C11, amended: every session carved from a full-charge boundary holds more
\* than one event; with no boundary and a non-empty input the one session
\* returned is the whole event sequence, of one event when the input has one.
C11_CarvedSessionsMoreThanOneEvent ==
  IsSome(analysis) =>
    LET a == Val(analysis)
    IN  /\ a.fullChargeEvents # <<>> =>
             \A k \in 1..Len(a.sessions) : Len(a.sessions[k].events) > 1
        /\ (a.fullChargeEvents = <<>> /\ Len(Events) > 0) =>
             /\ Len(a.sessions) = 1
             /\ a.sessions[1].events = Events

\* A boundary whose candidate of one event was dropped: one boundary, no
\* session.
C11_Witness ==
  /\ IsSome(analysis)
  /\ Len(Events) = 1
  /\ Len(Val(analysis).fullChargeEvents) = 1
  /\ Val(analysis).sessions = <<>>

\* C12: for every session, startmWh, endmWh and usedmWh are present only when
\* both the first and the last event of the session carry an mWh reading, and
\* whenever both carry one (a reading of 0 included) usedmWh is present and
\* equals max(0, startmWh - endmWh).
C12_EnergyFieldsIffBothReadings ==
  IsSome(analysis) =>
    \A k \in 1..Len(Sessions) :
      LET s == Sessions[k]
          firstEvent == s.events[1]
          lastEvent == s.events[Len(s.events)]
          both == IsSome(firstEvent.mWh) /\ IsSome(lastEvent.mWh)
      IN  /\ (IsSome(s.startmWh) \/ IsSome(s.endmWh) \/ IsSome(s.usedmWh))
               => both
          /\ both =>
               s.usedmWh = Some(Max(0, Val(firstEvent.mWh) - Val(lastEvent.mWh)))

\* The sessions of the last analysis whose battery net-drained.
Drained(s) == s.endPct < s.startPct
DrainedSessions == SelectSeq(Sessions, Drained)

\* C13: summary.totalSessions is the number of sessions with isComplete true;
\* the other three fields are the means over those sessions alone, so the
\* summary of the sessions with the incomplete ones removed is the same; with
\* no complete session the four fields are 0.
C13_SummaryOverCompleteOnly ==
  IsSome(analysis) =>
    LET a == Val(analysis)
        n == Cardinality({k \in 1..Len(a.sessions) : a.sessions[k].isComplete})
        c == DrainedSessions
        active == sumOver([k \in 1..Len(c) |-> c[k].activeMinutes], 1)
        activeRate == sumOver([k \in 1..Len(c) |-> c[k].activeRate_pct_per_hr], 1)
        idleRate == sumOver([k \in 1..Len(c) |-> c[k].idleRate_pct_per_hr], 1)
    IN  /\ a.summary.totalSessions = n
        /\ Len(c) = n
        /\ n = 0 => /\ a.summary.avgScreenOnTime = 0
                    /\ a.summary.avgActiveDrain = Zero
                    /\ a.summary.avgIdleDrain = Zero
        /\ n > 0 => /\ a.summary.avgScreenOnTime = MathRound(active.num, active.den * n)
                    /\ a.summary.avgActiveDrain = toFixed2(RatDivInt(activeRate, n))
                    /\ a.summary.avgIdleDrain = toFixed2(RatDivInt(idleRate, n))

\* Two sessions, one of them incomplete with active minutes of its own, and a
\* summary that counts one.
C13_Witness ==
  /\ IsSome(analysis)
  /\ Len(Sessions) = 2
  /\ Val(analysis).summary.totalSessions = 1
  /\ \E k \in 1..2 : ~Sessions[k].isComplete /\ RatPositive(Sessions[k].activeMinutes)
  /\ Val(analysis).summary.avgScreenOnTime > 0

\* The threshold of the last call, the upward crossings of it (0-based
\* indices) and the events that satisfy the full-charge condition.
Threshold == Val(analysis).settings.fullChargeThreshold
Crossings ==
  {i \in 1..(Len(Events) - 1) :
     At(Events, i - 1).percent < Threshold /\ At(Events, i).percent >= Threshold}
FullAt(i) ==
  \/ At(Events, i).percent >= Threshold
  \/ At(Events, i).state = "Charging" /\ At(Events, i).percent >= Threshold - 2
\* Some event of from..to that is not Charging has a later event in from..to.
DischargesIn(from, to) ==
  \E j \in from..(to - 1) : At(Events, j).state # "Charging"

\* C14 as stated: a sequence with exactly two upward crossings of the
\* threshold gives exactly 2 indices in fullChargeEvents and 2 sessions.
C14_TwoCrossingsTwoSessions ==
  (IsSome(analysis) /\ Cardinality(Crossings) = 2) =>
    /\ Len(Val(analysis).fullChargeEvents) = 2
    /\ Len(Sessions) = 2

\* C14, amended: when the second of the two crossings lies more than 5 index
\* positions after the first and every event that satisfies the full-charge
\* condition lies at most 5 positions after a crossing, fullChargeEvents is
\* exactly the two crossings; when in addition an event that is not Charging
\* has a later event both before the second crossing and after it, exactly
\* 2 sessions are returned.
C14_SpacedCrossingsTwoSessions ==
  (IsSome(analysis) /\ Cardinality(Crossings) = 2) =>
    LET c1 == CHOOSE i \in Crossings : \A j \in Crossings : i <= j
        c2 == CHOOSE i \in Crossings : \A j \in Crossings : j <= i
        last == Len(Events) - 1
    IN  (/\ c2 - c1 > 5
         /\ \A i \in 0..last :
              FullAt(i) => (c1 <= i /\ i <= c1 + 5) \/ (c2 <= i /\ i <= c2 + 5))
        => /\ Val(analysis).fullChargeEvents = <<c1, c2>>
           /\ (DischargesIn(c1, c2 - 1) /\ DischargesIn(c2, last))
                => Len(Sessions) = 2

\* Two crossings six positions apart, the first followed by a run of
\* full-charge readings, and two sessions.
C14_Witness ==
  /\ IsSome(analysis)
  /\ Crossings = {1, 7}
  /\ \A i \in 1..4 : FullAt(i)
  /\ DischargesIn(1, 6) /\ DischargesIn(7, Len(Events) - 1)
  /\ Val(analysis).fullChargeEvents = <<1, 7>>
  /\ Len(Sessions) = 2

\* A line that reaches the timestamp step of parseLine with an explicit date
\* in its first token.
DatedLine(line) ==
  /\ ~line.markup
  /\ ~line.reportGenerated
  /\ line.length >= MinLineLength
  /\ line.nparts >= MinParts
  /\ IsSome(line.ts)
  /\ IsSome(Val(line.ts).date)

\* Line n of the text left the record (date, its own time): an event with
\* its label and percent, or the error entry of line n.
StampedWith(n, date) ==
  LET line == LinesOf(input.text)[n]
      stamp == Timestamp(date, Val(line.ts).time)
  IN  \/ \E k \in 1..Len(Events) :
           /\ Events[k].timestamp = stamp
           /\ Events[k].rawState = line.rawState
           /\ Events[k].percent = Val(line.percent)
      \/ \E k \in 1..Len(Val(data).errors) :
           Val(data).errors[k] = InvalidTimestampError("Line", n, stamp)

\* C15: in parseText, an accepted time-only line that comes after a line with
\* an explicit date is stamped with the date of the most recent such line
\* before it, never with previousDay or the current local date.
C15_TimeOnlyTakesLastSeenDate ==
  ParsedText =>
    \A n \in AcceptedLines(input.text) :
      LET lines == LinesOf(input.text)
          dated == {m \in 1..(n - 1) : DatedLine(lines[m])}
      IN  (~IsSome(Val(lines[n].ts).date) /\ dated # {}) =>
            LET m == CHOOSE m \in dated : \A j \in dated : j <= m
            IN  StampedWith(n, Val(Val(lines[m].ts).date))

\* C16: in the parser's result every event's minutesOffset is the rounded
\* number of minutes from the first successfully parsed event in input order
\* (the event startDate was taken from) to the event, whatever the event's
\* position after the sort.
C16_OffsetsFromFirstParsedEvent ==
  Parsed =>
    \A k \in 1..Len(Events) :
      Events[k].minutesOffset =
        MathRound(Instant(Events[k]) - Val(Val(data).startDate), SecPerMin)

\* The sort moved an event in front of the first parsed one: the first event
\* of the result has an offset below 0 and another event has offset 0.
C16_Witness ==
  /\ Parsed
  /\ Len(Events) >= 2
  /\ Events[1].minutesOffset < 0
  /\ \E k \in 2..Len(Events) :
       /\ Events[k].minutesOffset = 0
       /\ Instant(Events[k]) = Val(Val(data).startDate)

\* C17: when some line starts with an explicit date, D being the first such
\* date, previousDay is the calendar day before D in every local time zone:
\* every accepted time-only line before the first accepted dated line is
\* stamped with the day before D.
C17_PreviousDayIsDayBefore ==
  ParsedText =>
    LET lines == LinesOf(input.text)
        starts == {m \in 1..Len(lines) :
                     IsSome(lines[m].lineTs) /\ IsSome(Val(lines[m].lineTs).date)}
        acceptedDated == {m \in AcceptedLines(input.text) :
                            IsSome(Val(lines[m].ts).date)}
    IN  starts # {} =>
          LET D == Val(Val(lines[CHOOSE m \in starts :
                                    \A j \in starts : m <= j].lineTs).date)
          IN  D.valid =>
                \A n \in AcceptedLines(input.text) :
                  (/\ ~IsSome(Val(lines[n].ts).date)
                   /\ \A m \in acceptedDated : n < m)
                  => StampedWith(n, DateStr(D.day - 1))

\* C18: when parseHTMLReport extracts no usable table row, the well-formed
\* data lines of the document that lie outside any table come back as
\* events (here: those with an explicit date, which need no date fallback).
C18_FallbackReturnsOutsideLines ==
  (input.kind = "html" /\ IsSome(data) /\ AcceptedRows(input.html) = {}) =>
    \A n \in 1..Len(input.html.outside) :
      LET line == input.html.outside[n]
      IN  (/\ Accepts(line)
           /\ IsSome(Val(line.ts).date)
           /\ Val(Val(line.ts).date).valid
           /\ Val(line.ts).time.valid)
          => \E k \in 1..Len(Events) :
               /\ Events[k].timestamp =
                    Timestamp(Val(Val(line.ts).date), Val(line.ts).time)
               /\ Events[k].rawState = line.rawState
               /\ Events[k].percent = Val(line.percent)

\* The maximal runs <<a, b>> of consecutive events that satisfy the
\* full-charge condition, and the recorded boundaries as a set.
Runs ==
  {r \in (0..(Len(Events) - 1)) \X (0..(Len(Events) - 1)) :
     /\ r[1] <= r[2]
     /\ \A i \in r[1]..r[2] : FullAt(i)
     /\ (r[1] = 0 \/ ~FullAt(r[1] - 1))
     /\ (r[2] = Len(Events) - 1 \/ ~FullAt(r[2] + 1))}
Boundaries ==
  {Val(analysis).fullChargeEvents[k] :
     k \in 1..Len(Val(analysis).fullChargeEvents)}

SpanEnd(j) ==
  IF j < Len(Val(analysis).fullChargeEvents)
  THEN Val(analysis).fullChargeEvents[j + 1] ELSE Len(Events) - 1
SpanNotCharging(j) ==
  {i \in Val(analysis).fullChargeEvents[j]..SpanEnd(j) :
     At(Events, i).state # "Charging"}
SpanStart(j) ==
  IF SpanNotCharging(j) = {} THEN Val(analysis).fullChargeEvents[j]
  ELSE CHOOSE i \in SpanNotCharging(j) : \A k \in SpanNotCharging(j) : i <= k
KeptSpans ==
  {j \in 1..Len(Val(analysis).fullChargeEvents) : SpanEnd(j) - SpanStart(j) >= 1}

\* C20 as stated: no session carved from a full-charge boundary begins with
\* a Charging event.
C20_NoSessionBeginsCharging ==
  (IsSome(analysis) /\ Val(analysis).fullChargeEvents # <<>>) =>
    \A k \in 1..Len(Sessions) : Sessions[k].events[1].state # "Charging"

\* C20, amended: the sessions are, in order, those of the spans left with
\* more than one event; a session begins at the first event of its span that
\* is not Charging when the span has one, and at the boundary event, a
\* Charging event, when every event of the span is Charging.
C20_SessionBeginsAtDischargeStart ==
  (IsSome(analysis) /\ Val(analysis).fullChargeEvents # <<>>) =>
    /\ Len(Sessions) = Cardinality(KeptSpans)
    /\ \A j \in KeptSpans :
         LET k == Cardinality({i \in KeptSpans : i <= j})
             s == Sessions[k]
         IN  /\ s.events = SubSeq(Events, SpanStart(j) + 1, SpanEnd(j) + 1)
             /\ (s.events[1].state = "Charging") = (SpanNotCharging(j) = {})

\* Two sessions: the first begins after the Charging events that lead its
\* span, the second keeps a span whose events are all Charging.
C20_Witness ==
  /\ IsSome(analysis)
  /\ Len(Val(analysis).fullChargeEvents) = 2
  /\ Len(Sessions) = 2
  /\ At(Events, Val(analysis).fullChargeEvents[1]).state = "Charging"
  /\ SpanStart(1) > Val(analysis).fullChargeEvents[1]
  /\ Sessions[1].events[1].state = "Active"
  /\ SpanNotCharging(2) = {}
  /\ Sessions[2].events[1].state = "Charging"

\* C21: when no event of a non-empty sequence is recorded as a full-charge
\* boundary, detectSessions returns exactly one session, with sessionId 1,
\* whose events are the whole input sequence in the same order.
C21_NoBoundaryOneWholeSession ==
  (IsSome(analysis) /\ Len(Events) > 0 /\ Val(analysis).fullChargeEvents = <<>>) =>
    /\ Len(Sessions) = 1
    /\ Sessions[1].sessionId = 1
    /\ Sessions[1].events = Events
    /\ Sessions[1].startPct = Events[1].percent
    /\ Sessions[1].endPct = Events[Len(Events)].percent

\* A log of one event below the threshold, returned as the one session.
C21_Witness ==
  /\ IsSome(analysis)
  /\ Len(Events) = 1
  /\ Val(analysis).fullChargeEvents = <<>>
  /\ Len(Sessions) = 1
  /\ Sessions[1].sessionId = 1
  /\ Sessions[1].events = Events

\* Over the pairs (events[i], events[i + 1]) from pair i on whose left event
\* has the given state: the seconds elapsed, each floored at 0, and the
\* percent lost, each floored at 0.
RECURSIVE BucketSec(_, _, _)
BucketSec(events, state, i) ==
  IF i >= Len(events) THEN 0
  ELSE (IF events[i].state = state
        THEN Max(0, Instant(events[i + 1]) - Instant(events[i])) ELSE 0)
       + BucketSec(events, state, i + 1)

RECURSIVE BucketDrain(_, _, _)
BucketDrain(events, state, i) ==
  IF i >= Len(events) THEN 0
  ELSE (IF events[i].state = state
        THEN Max(0, events[i].percent - events[i + 1].percent) ELSE 0)
       + BucketDrain(events, state, i + 1)

\* C22: in every session the minutes and the drain of each consecutive pair
\* go to the bucket of the left event's state alone: Active to activeMinutes
\* and activeDrainPct, Idle to idleMinutes and idleDrainPct, Charging to
\* chargingMinutes and to no drain.
C22_PairAttributedToLeftState ==
  IsSome(analysis) =>
    \A k \in 1..Len(Sessions) :
      LET s == Sessions[k]
      IN  /\ s.activeMinutes = Rat(BucketSec(s.events, "Active", 1), SecPerMin)
          /\ s.idleMinutes = Rat(BucketSec(s.events, "Idle", 1), SecPerMin)
          /\ s.chargingMinutes = Rat(BucketSec(s.events, "Charging", 1), SecPerMin)
          /\ s.activeDrainPct = BucketDrain(s.events, "Active", 1)
          /\ s.idleDrainPct = BucketDrain(s.events, "Idle", 1)

\* A session of an Active event followed by an Idle one, an hour later and
\* lower: the pair counts as active, nothing as idle.
C22_Witness ==
  /\ IsSome(analysis)
  /\ Len(Sessions) = 1
  /\ Len(Sessions[1].events) = 2
  /\ Sessions[1].events[1].state = "Active"
  /\ Sessions[1].events[2].state = "Idle"
  /\ RatPositive(Sessions[1].activeMinutes)
  /\ Sessions[1].activeDrainPct > 0
  /\ Sessions[1].idleMinutes = Zero
  /\ Sessions[1].idleDrainPct = 0

\* The hourly percent rate of a session in one state: the drain of the
\* state's pairs over their hours, 0 when they span no time.
RateOf(s, state) ==
  IF BucketSec(s.events, state, 1) > 0
  THEN Rat(BucketDrain(s.events, state, 1) * 60 * SecPerMin,
           BucketSec(s.events, state, 1))
  ELSE Zero
MeanRate(state) ==
  RatDivInt(sumOver([k \in 1..Len(DrainedSessions) |->
                       RateOf(DrainedSessions[k], state)], 1),
            Len(DrainedSessions))
\* The pooled rate: the drain of all complete sessions over their hours.
PooledRate(state) ==
  LET sec == [k \in 1..Len(DrainedSessions) |->
                Rat(BucketSec(DrainedSessions[k].events, state, 1), 1)]
      drain == [k \in 1..Len(DrainedSessions) |->
                  Rat(BucketDrain(DrainedSessions[k].events, state, 1), 1)]
  IN  IF sumOver(sec, 1).num > 0
      THEN Rat(sumOver(drain, 1).num * 60 * SecPerMin, sumOver(sec, 1).num)
      ELSE Zero
\* x is y rounded to 2 decimal places: hundredths, at most half of one off.
RoundedTo2(x, y) ==
  /\ 100 % x.den = 0
  /\ 200 * Abs(x.num * y.den - y.num * x.den) <= x.den * y.den

\* C23: with a complete session, summary.avgActiveDrain is the mean over the
\* complete sessions of activeRate_pct_per_hr (0 for a session without
\* active minutes), rounded to 2 decimal places, and avgIdleDrain likewise
\* for idleRate_pct_per_hr.
C23_MeanOfSessionRates ==
  (IsSome(analysis) /\ Len(DrainedSessions) > 0) =>
    /\ RoundedTo2(Val(analysis).summary.avgActiveDrain, MeanRate("Active"))
    /\ RoundedTo2(Val(analysis).summary.avgIdleDrain, MeanRate("Idle"))
    /\ \A k \in 1..Len(Sessions) :
         /\ Sessions[k].activeRate_pct_per_hr = RateOf(Sessions[k], "Active")
         /\ Sessions[k].idleRate_pct_per_hr = RateOf(Sessions[k], "Idle")

\* Two complete sessions, one of them without active minutes, and a mean of
\* rates that is not the pooled rate.
C23_Witness ==
  /\ IsSome(analysis)
  /\ Len(DrainedSessions) = 2
  /\ \E k \in 1..2 : DrainedSessions[k].activeMinutes = Zero
  /\ RatPositive(Val(analysis).summary.avgActiveDrain)
  /\ ~RoundedTo2(Val(analysis).summary.avgActiveDrain, PooledRate("Active"))
  /\ ~RoundedTo2(Val(analysis).summary.avgIdleDrain, PooledRate("Idle"))

\* The state the priority order gives a label made of the words ws.
ExpectedState(ws) ==
  IF \E k \in 1..Len(ws) : "Active" \in ws[k].has THEN "Active"
  ELSE IF \E k \in 1..Len(ws) : "Idle" \in ws[k].has THEN "Idle"
  ELSE IF \E k \in 1..Len(ws) : "Charging" \in ws[k].has THEN "Charging"
  ELSE "Unknown"

\* C24: every label gets a state, by the fixed priority on the lower-cased
\* label: Active when it contains "active", whatever else it contains; else
\* Idle when it contains "standby", "suspended" or "sleep"; else Charging
\* when it contains "charging", "plugged" or "ac"; else Unknown.
C24_NormalizeStatePriority ==
  Parsed =>
    \A k \in 1..Len(Events) :
      /\ Events[k].state \in {"Active", "Idle", "Charging", "Unknown"}
      /\ \A ws \in WordSeqs :
           Events[k].rawState = JoinWords(ws) => Events[k].state = ExpectedState(ws)

\* A label in capitals with an Idle and a Charging keyword, normalized Idle.
C24_Witness ==
  /\ ParsedText
  /\ Len(Events) = 1
  /\ Events[1].rawState =
       <<"S","T","A","N","D","B","Y"," ","A","C">>
  /\ Events[1].state = "Idle"

\* No line of the text carries an explicit date.
NoDates(text) ==
  \A n \in 1..Len(text) :
    IsSome(text[n].lineTs) => ~IsSome(Val(text[n].lineTs).date)
\* Event k of the result is the record of the k-th accepted line.
InLineOrder ==
  /\ Len(Events) = Cardinality(AcceptedLines(input.text))
  /\ \A n \in AcceptedLines(input.text) :
       LET k == Cardinality({m \in AcceptedLines(input.text) : m <= n})
           line == LinesOf(input.text)[n]
       IN  /\ Events[k].timestamp.time = Val(line.ts).time
           /\ Events[k].rawState = line.rawState
           /\ Events[k].percent = Val(line.percent)

\* C25 as stated: for a text without explicit dates parseText returns the
\* events in input line order, also when the times pass midnight.
C25_UndatedKeepsLineOrder ==
  (ParsedText /\ NoDates(input.text)) => InLineOrder

\* C25, amended: for a text without explicit dates every event is stamped
\* with the current local date and the events come back in non-decreasing
\* order of their time of day: in input line order exactly when the accepted
\* lines' times of day never decrease, so a line after midnight comes back
\* before the lines it followed.
C25_UndatedSortedByTimeOfDay ==
  (ParsedText /\ NoDates(input.text)) =>
    /\ Len(Events) = Cardinality(AcceptedLines(input.text))
    /\ \A k \in 1..Len(Events) : Events[k].timestamp.date = DateStr(today)
    /\ \A k \in 1..(Len(Events) - 1) :
         Events[k].timestamp.time.sec <= Events[k + 1].timestamp.time.sec
    /\ InLineOrder =
         (\A m, n \in AcceptedLines(input.text) :
            m < n => Val(LinesOf(input.text)[m].ts).time.sec
                       <= Val(LinesOf(input.text)[n].ts).time.sec)

\* 23:50:00 then 00:10:00 in the text, 00:10:00 then 23:50:00 in the result.
C25_Witness ==
  /\ ParsedText
  /\ NoDates(input.text)
  /\ Len(LinesOf(input.text)) = 2
  /\ AcceptedLines(input.text) = {1, 2}
  /\ Val(LinesOf(input.text)[1].ts).time = T_2350
  /\ Val(LinesOf(input.text)[2].ts).time = T_0010
  /\ Len(Events) = 2
  /\ Events[1].timestamp = Timestamp(DateStr(today), T_0010)
  /\ Events[2].timestamp = Timestamp(DateStr(today), T_2350)

\* C26: with at least one recorded boundary, every session's events is a
\* contiguous slice of data.events that starts at or after a recorded
\* boundary, no event before the first boundary is in any session, and the
\* sessions are listed in increasing order of their start index.
C26_SessionsStartAfterFirstBoundary ==
  (IsSome(analysis) /\ Val(analysis).fullChargeEvents # <<>>) =>
    LET first == Val(analysis).fullChargeEvents[1]
    IN  /\ Len(ranges) = Len(Sessions)
        /\ \A k \in 1..Len(Sessions) :
             /\ Sessions[k].events =
                  SubSeq(Events, ranges[k].dischargeStart + 1,
                         ranges[k].sessionEnd + 1)
             /\ \E j \in 1..Len(Val(analysis).fullChargeEvents) :
                  /\ Val(analysis).fullChargeEvents[j] <= ranges[k].dischargeStart
                  /\ ranges[k].sessionEnd <= SpanEnd(j)
             /\ \A i \in 0..(first - 1) :
                  ~(ranges[k].dischargeStart <= i /\ i <= ranges[k].sessionEnd)
             /\ Sessions[k].sessionId = k
        /\ \A k \in 1..(Len(Sessions) - 1) :
             ranges[k].dischargeStart < ranges[k + 1].dischargeStart

\* Events before the first boundary, and two sessions after it.
C26_Witness ==
  /\ IsSome(analysis)
  /\ Len(Val(analysis).fullChargeEvents) = 2
  /\ Val(analysis).fullChargeEvents[1] >= 2
  /\ Len(Sessions) = 2
  /\ ranges[1].dischargeStart > Val(analysis).fullChargeEvents[1]

\* C27: validateData applied to the result of parseText or parseHTMLReport
\* never reports "Timestamps are not in chronological order".
C27_ParsedNeverOutOfOrder ==
  (Parsed /\ IsSome(validation)) =>
    /\ data = given
    /\ \A k \in 1..Len(Val(validation).issues) :
         Val(validation).issues[k] # "Timestamps are not in chronological order"

\* A text whose accepted lines are not in chronological order, parsed and
\* validated.
C27_Witness ==
  /\ ParsedText
  /\ IsSome(validation)
  /\ Len(Events) = Cardinality(AcceptedLines(input.text))
  /\ Len(Events) >= 2
  /\ ~InLineOrder
  /\ Val(validation).issues =
       <<"Very few events found - results may not be meaningful">>

\* The events at hand are sorted non-decreasing by instant.
SortedByInstant ==
  \A k \in 1..(Len(Events) - 1) : Instant(Events[k]) <= Instant(Events[k + 1])
NoUnknown == \A k \in 1..Len(Events) : Events[k].state # "Unknown"
\* The seconds that follow an event of state Unknown.
UnknownSeconds ==
  LET gap(k) == Max(0, Instant(Events[k + 1]) - Instant(Events[k]))
      RECURSIVE from(_)
      from(k) == IF k >= Len(Events) THEN 0
                 ELSE (IF Events[k].state = "Unknown" THEN gap(k) ELSE 0)
                      + from(k + 1)
  IN  from(1)
WholeMinuteGaps ==
  \A k \in 1..(Len(Events) - 1) :
    (Instant(Events[k + 1]) - Instant(Events[k])) % SecPerMin = 0
\* activeMinutes + idleMinutes + chargingMinutes, exactly.
BucketMinutes ==
  BigAdd(BigAdd(Val(minutes).activeMinutes, Val(minutes).idleMinutes),
          Val(minutes).chargingMinutes)
\* The buckets and the time after Unknown events on one side, durationMin on
\* the other, both in units of 1/60 of 2^-UnitBits minutes.
CountedAndUnknown ==
  BigAdd(BigTimes(BucketMinutes, SecPerMin),
          ShiftLeft(Big(UnknownSeconds), UnitBits))
WholeDuration == BigTimes(Val(minutes).durationMin, SecPerMin)
\* |x - y| <= Len(Events) * 2^-(Significand - 1) * durationMin, in those units.
WithinRounding(x, y) ==
  LET slack == BigTimes(Val(minutes).durationMin, SecPerMin * Len(Events))
  IN  /\ BigLeq(ShiftLeft(x, Significand - 1),
                 BigAdd(ShiftLeft(y, Significand - 1), slack))
      /\ BigLeq(ShiftLeft(y, Significand - 1),
                 BigAdd(ShiftLeft(x, Significand - 1), slack))

\* C28 as stated: for a session sorted by timestamp the three buckets sum to
\* at most durationMin, and to durationMin when no event is Unknown.
C28_BucketsWithinDuration ==
  (IsSome(minutes) /\ SortedByInstant) =>
    /\ BigLeq(BucketMinutes, Val(minutes).durationMin)
    /\ NoUnknown => BucketMinutes = Val(minutes).durationMin

\* C28, amended: for a session sorted by timestamp the three buckets and the
\* time after Unknown events add up to durationMin only as far as the
\* rounding of each gap's minutes allows: within n * 2^-52 * durationMin for
\* n events, above it or below; exactly when every gap is a whole number of
\* minutes, and then the buckets sum to at most durationMin, to durationMin
\* when no event is Unknown.
C28_BucketsWithinDurationRounded ==
  (IsSome(minutes) /\ SortedByInstant) =>
    /\ WithinRounding(CountedAndUnknown, WholeDuration)
    /\ WholeMinuteGaps =>
         /\ CountedAndUnknown = WholeDuration
         /\ BigLeq(BucketMinutes, Val(minutes).durationMin)
         /\ NoUnknown => BucketMinutes = Val(minutes).durationMin

\* 08:00:00, 08:00:10 and 08:01:20, all Active: activeMinutes is
\* 1.3333333333333335 and durationMin 1.3333333333333333.
C28_Witness ==
  /\ IsSome(minutes)
  /\ Len(Events) = 3
  /\ \A k \in 1..3 : Events[k].state = "Active"
  /\ Instant(Events[2]) - Instant(Events[1]) = 10
  /\ Instant(Events[3]) - Instant(Events[2]) = 70
  /\ Val(minutes).idleMinutes = <<>>
  /\ ~BigLeq(Val(minutes).activeMinutes, Val(minutes).durationMin)
  /\ Val(minutes).activeMinutes = BigAdd(Val(minutes).durationMin, ShiftLeft(<<1>>, 12))

\* The processData call that has just returned, by its inputs: it threw, or
\* what it parsed.
Settled == IsSome(ran)
RanThrew ==
  IF IsSome(Val(ran).file) THEN ~Val(Val(ran).file).readable
  ELSE trimIsEmpty(Val(ran).textInput)
RanParsed ==
  IF IsSome(Val(ran).file) THEN parseFile(Val(Val(ran).file), today, tz)
  ELSE parseText(Val(ran).textInput, today, tz)
RanValid == ~RanThrew /\ validateData(RanParsed, tz).isValid

\* C29: processData hands parsed data to onDataParsed only if validateData
\* found it valid; when validation fails or an exception is raised,
\* onDataParsed is not called, parseResult is null and an error message is
\* set.
C29_OnlyValidDataHanded ==
  /\ IsSome(batteryData) => validateData(Val(batteryData), tz).isValid
  /\ isProcessing => (parseResult = None /\ ~called)
  /\ Settled =>
       /\ called => (RanValid /\ batteryData = Some(RanParsed))
       /\ RanValid => (called /\ parseResult = Some(RanParsed) /\ error = <<>>)
       /\ ~RanValid => (~called /\ parseResult = None /\ error # <<>>)

\* After a run that handed its data on, a run on five good readings and one
\* of 150 %: the validation fails, the earlier data stays with the Dashboard.
C29_Witness ==
  /\ Settled
  /\ ~RanThrew
  /\ Len(RanParsed.events) > 5
  /\ ~RanValid
  /\ IsSome(batteryData)
  /\ parseResult = None
  /\ error = <<"Data validation failed: ",
               "Invalid battery percentage values detected">>

\* What the effect computes from the current data and threshold.
CurrentAnalysis ==
  detectSessions(Val(batteryData), Some(fullChargeThreshold), tz)

\* C30: once the effect has run for the current data and threshold,
\* sessionAnalysis is detectSessions(data, fullChargeThreshold) and
\* selectedSession is null or one of its sessions: until a session is clicked
\* the first complete one, else the first one; no session of an earlier
\* threshold or earlier data is kept.
C30_AnalysisAndSelectionCurrent ==
  ~effectDue =>
    IF IsSome(batteryData)
    THEN /\ sessionAnalysis = Some(CurrentAnalysis)
         /\ Val(sessionAnalysis).settings.fullChargeThreshold = fullChargeThreshold
         /\ \/ selectedSession = None
            \/ \E k \in 1..Len(CurrentAnalysis.sessions) :
                 selectedSession = Some(CurrentAnalysis.sessions[k])
         /\ ~picked =>
              LET complete == {k \in 1..Len(CurrentAnalysis.sessions) :
                                 CurrentAnalysis.sessions[k].isComplete}
              IN  /\ complete # {} =>
                       \E k \in complete :
                         /\ selectedSession = Some(CurrentAnalysis.sessions[k])
                         /\ \A j \in 1..(k - 1) : j \notin complete
                  /\ (complete = {} /\ CurrentAnalysis.sessions # <<>>) =>
                       selectedSession = Some(CurrentAnalysis.sessions[1])
                  /\ CurrentAnalysis.sessions = <<>> => selectedSession = None
    ELSE sessionAnalysis = None /\ selectedSession = None

\* Two sessions at threshold 98, the first not complete, the second complete
\* and selected by the effect.
C30_Witness ==
  /\ ~effectDue
  /\ ~picked
  /\ IsSome(batteryData)
  /\ fullChargeThreshold = InitialThreshold
  /\ Len(CurrentAnalysis.sessions) = 2
  /\ ~CurrentAnalysis.sessions[1].isComplete
  /\ selectedSession = Some(CurrentAnalysis.sessions[2])

====
